---- MODULE Spec2Model ----
(***************************************************************************)
(* A model of styml, a single-header StrictYAML parser and emitter:        *)
(* the element store, the map child index (an 8-way associative open       *)
(* addressed hashtable keyed by wyhash), the Node API, the tokenizer, the   *)
(* tree builder and the two emitters.                                      *)
(*                                                                         *)
(* Conventions.  A character is its byte value.  A text is a sequence of   *)
(* bytes; C++ index i is TLA+ index i+1.  An unsigned 32 or 64 bit word    *)
(* that does not fit the model checker's integers (the hashes) is a        *)
(* little-endian sequence of 4 or 8 bytes.  A string stored in the arena   *)
(* is held by value in the element that refers to it (the arena is append  *)
(* only, so an (offset, size) pair always denotes the same bytes); its     *)
(* stored size counts the terminating zero.                                *)
(***************************************************************************)
EXTENDS Integers, Sequences, FiniteSets, TLC

\* ------------------------------------------------------------------------
\* Characters
\* ------------------------------------------------------------------------
NUL == 0
TAB == 9
NL == 10
CR == 13
SP == 32
DQ == 34
HASH == 35
SQ == 39
PLUS == 43
DASH == 45
DIGIT0 == 48
DIGIT1 == 49
DIGIT9 == 57
COLON == 58
GT == 62
BSL == 92
UPPER_U == 85
LOWER_N == 110
LOWER_R == 114
LOWER_T == 116
LOWER_U == 117
LOWER_X == 120
PIPE == 124

\* C++ index into a TLA+ sequence
At0(s, i) == s[i + 1]

\* a local variable: the value v under the name the body F gives it
With(v, F(_)) == F(v)

\* the same, the value v computed before the body is
Bind(v, F(_)) == CHOOSE r \in {F(x) : x \in {v}} : TRUE

\* ------------------------------------------------------------------------
\* Byte and word arithmetic (uint32_t / uint64_t as little-endian bytes)
\* ------------------------------------------------------------------------
RECURSIVE BitXor(_, _, _)
BitXor(a, b, n) ==
    IF n = 0 THEN 0
    ELSE (((a % 2) + (b % 2)) % 2) + 2 * BitXor(a \div 2, b \div 2, n - 1)

RECURSIVE BitAnd(_, _, _)
BitAnd(a, b, n) ==
    IF n = 0 THEN 0
    ELSE ((a % 2) * (b % 2)) + 2 * BitAnd(a \div 2, b \div 2, n - 1)

XorNibble == [a \in 0..15 |-> [b \in 0..15 |-> BitXor(a, b, 4)]]

Xor8(a, b) == XorNibble[a % 16][b % 16] + 16 * XorNibble[a \div 16][b \div 16]

\* a ^ b on words of equal length
WXor(a, b) == [i \in 1..Len(a) |-> Xor8(a[i], b[i])]

\* the n low bytes of the natural number v
RECURSIVE WFromNat(_, _)
WFromNat(v, n) == IF n = 0 THEN <<>> ELSE <<v % 256>> \o WFromNat(v \div 256, n - 1)

\* the natural number held by the n low bytes of a word (n <= 3 keeps it small)
RECURSIVE WLowNat(_, _)
WLowNat(w, n) == IF n = 0 THEN 0 ELSE w[1] + 256 * WLowNat(Tail(w), n - 1)

\* (uint32_t) of a 64-bit word
Low32(w) == SubSeq(w, 1, 4)

\* unsigned comparison of a 32-bit word with a small natural number
U32LessNat(w, v) == w[4] = 0 /\ w[3] = 0 /\ w[1] + 256 * w[2] < v

\* column k (0..15) of the schoolbook product of two 64-bit words
MulCol(a, b, k) ==
    LET lo == IF k > 7 THEN k - 7 ELSE 0
        hi == IF k > 7 THEN 7 ELSE k
        F[i \in lo - 1..hi] == IF i < lo THEN 0 ELSE F[i - 1] + a[i + 1] * b[k - i + 1]
    IN F[hi]

RECURSIVE MulCarry(_, _, _, _)
MulCarry(a, b, k, carry) ==
    IF k = 16 THEN <<>>
    ELSE With(MulCol(a, b, k) + carry, LAMBDA s :
              <<s % 256>> \o MulCarry(a, b, k + 1, s \div 256))

\* _wymum: (A, B) := (low 64 bits, high 64 bits) of the 128-bit product A * B
wymum(A, B) == With(MulCarry(A, B, 0, 0), LAMBDA r : <<SubSeq(r, 1, 8), SubSeq(r, 9, 16)>>)

\* _wymix
wymix(A, B) == With(wymum(A, B), LAMBDA m : WXor(m[1], m[2]))

\* _wyr8, _wyr4, _wyr3: little-endian reads of the key bytes p at C++ offset o
wyr8(p, o) == SubSeq(p, o + 1, o + 8)
wyr4(p, o) == SubSeq(p, o + 1, o + 4) \o <<0, 0, 0, 0>>
wyr3(p, k) == <<p[k], p[(k \div 2) + 1], p[1], 0, 0, 0, 0, 0>>

\* (hi << 32) | lo for two words that hold 32-bit values
Join32(hi, lo) == SubSeq(lo, 1, 4) \o SubSeq(hi, 1, 4)

secret0 == <<165, 120, 108, 170, 204, 141, 53, 45>>  \* 0x2d358dccaa6c78a5
secret1 == <<201, 172, 46, 150, 147, 75, 184, 139>>  \* 0x8bb84b93962eacc9
secret2 == <<163, 212, 51, 212, 46, 166, 51, 75>>    \* 0x4b33a62ed433d4a3
secret3 == <<71, 170, 225, 29, 165, 45, 90, 77>>     \* 0x4d5a2da51de1aa47
wyseed == <<169, 240, 171, 199, 244, 59, 129, 202>>  \* 0xca813bf4c7abf0a9

\* the 48-byte rounds of wyhash: state <<seed, see1, see2>>, offset o, i bytes left
RECURSIVE WyRound48(_, _, _, _)
WyRound48(p, o, i, s) ==
    IF i < 48 THEN <<o, i, WXor(s[1], WXor(s[2], s[3]))>>
    ELSE CHOOSE r \in {WyRound48(p, o + 48, i - 48, t) :
                 t \in {<<wymix(WXor(wyr8(p, o), secret1), WXor(wyr8(p, o + 8), s[1])),
                          wymix(WXor(wyr8(p, o + 16), secret2), WXor(wyr8(p, o + 24), s[2])),
                          wymix(WXor(wyr8(p, o + 32), secret3), WXor(wyr8(p, o + 40), s[3]))>>}} :
             TRUE

\* the 16-byte rounds of wyhash
RECURSIVE WyRound16(_, _, _, _)
WyRound16(p, o, i, seed) ==
    IF i <= 16 THEN <<o, i, seed>>
    ELSE CHOOSE r \in {WyRound16(p, o + 16, i - 16, t) :
                 t \in {wymix(WXor(wyr8(p, o), secret1), WXor(wyr8(p, o + 8), seed))}} : TRUE

\* the rounds of a key longer than 16 bytes: <<offset, bytes left, seed>>
wyLong(p, len) ==
    IF len >= 48
    THEN With(WyRound48(p, 0, len, <<wyseed, wyseed, wyseed>>), LAMBDA r :
              WyRound16(p, r[1], r[2], r[3]))
    ELSE WyRound16(p, 0, len, wyseed)

\* the words a and b and the seed the last mix of wyhash takes
wyTail(p, len) ==
    IF len <= 16
    THEN IF len >= 4
         THEN <<Join32(wyr4(p, 0), wyr4(p, (len \div 8) * 4)),
                Join32(wyr4(p, len - 4), wyr4(p, len - 4 - (len \div 8) * 4)), wyseed>>
         ELSE IF len > 0 THEN <<wyr3(p, len), WFromNat(0, 8), wyseed>>
         ELSE <<WFromNat(0, 8), WFromNat(0, 8), wyseed>>
    ELSE With(wyLong(p, len), LAMBDA long :
              <<wyr8(p, long[1] + long[2] - 16), wyr8(p, long[1] + long[2] - 8), long[3]>>)

\* wyhash(key, len) with the fixed seed; the result is a 64-bit word
wyhash(p) ==
    With(wyTail(p, Len(p)), LAMBDA t :
    With(wymum(WXor(t[1], secret1), WXor(t[2], t[3])), LAMBDA m :
         wymix(WXor(WXor(m[1], secret0), WFromNat(Len(p), 8)), WXor(m[2], secret1))))

\* ------------------------------------------------------------------------
\* Element store
\* ------------------------------------------------------------------------
\* 0xFFFFFFFF does not fit the model checker's integers: UINT_MAX is the largest
\* value they hold; it is only compared with child counts and with itself.
UINT_MAX == 2147483647

NodeTypes == {"UNKNOWN", "KEY", "VALUE", "SEQUENCE", "MAP", "COMMENT"}

\* Element(kind): the type tag with zeroed type-specific fields. The fields the
\* union overlays are kept apart by name; reset zeroes them all. compound is
\* the 29 low bits of d: the string size of a string element once its string is
\* set, the capacity of the child array of a container, 0 until then.
Element(kind) ==
    [type |-> kind, str |-> <<>>, eltIdx |-> 0, commentIdx |-> 0, isStandalone |-> 0,
     subs |-> <<>>, compound |-> 0]

\* Element(kind, stringIdx, stringSize)
ElementString(kind, str) == [Element(kind) EXCEPT !.str = str, !.compound = Len(str) + 1]

\* Element(KEY, stringIdx, stringSize, eltIdx)
ElementKey(str, eltIdx) ==
    [Element("KEY") EXCEPT !.str = str, !.compound = Len(str) + 1, !.eltIdx = eltIdx]

\* a reset that changes the type and keeps the children
resetKeepSubs(e, kind) ==
    [Element(kind) EXCEPT !.subs = IF e.type = "KEY" THEN <<>> ELSE e.subs,
                          !.compound = IF e.type \in {"MAP", "SEQUENCE"} THEN e.compound ELSE 0]

\* Element::reset
reset(e, kind) == Element(kind)

\* Element::getCompound: the 29 low bits of d, whatever the type
getCompound(e) == e.compound

\* Element::getStringSize (its assertion on the type is left to the callers)
getStringSize(e) == getCompound(e)

\* Element::ensureSpaceForOne: the capacity doubles (from 0 to 1) when full
ensureSpaceForOne(e) ==
    IF Len(e.subs) >= getCompound(e)
    THEN [e EXCEPT !.compound = IF 2 * getCompound(e) > 1 THEN 2 * getCompound(e) ELSE 1]
    ELSE e

getSubQty(e) == IF e.type = "KEY" THEN (IF e.eltIdx = 0 THEN 0 ELSE 1) ELSE Len(e.subs)

getSub(e, idx) == At0(e.subs, idx)

\* Element::add
add(e, eltIdx) ==
    IF e.type = "KEY" THEN [e EXCEPT !.eltIdx = eltIdx]
    ELSE [ensureSpaceForOne(e) EXCEPT !.subs = Append(e.subs, eltIdx)]

\* Element::insert (memmove of the tail, then the store)
insert(e, idx, eltIdx) ==
    [ensureSpaceForOne(e) EXCEPT !.subs = SubSeq(e.subs, 1, idx) \o <<eltIdx>> \o SubSeq(e.subs, idx + 1, Len(e.subs))]

\* Element::erase
erase(e, idx) ==
    [e EXCEPT !.subs = SubSeq(e.subs, 1, idx) \o SubSeq(e.subs, idx + 2, Len(e.subs))]

\* Element::replace
replace(e, idx, newEltIdx) == [e EXCEPT !.subs[idx + 1] = newEltIdx]

\* Element::setString
setString(e, str) == [e EXCEPT !.str = str, !.compound = Len(str) + 1]

\* Element::setComment
setComment(e, eltIdx) ==
    IF e.type \in {"COMMENT", "KEY", "VALUE"} THEN [e EXCEPT !.commentIdx = eltIdx]
    ELSE IF e.type \in {"MAP", "SEQUENCE"} THEN add(e, eltIdx)
    ELSE e

\* Element::getNextCommentIndex
getNextCommentIndex(e) == IF e.type \in {"COMMENT", "KEY", "VALUE"} THEN e.commentIdx ELSE 0

\* ------------------------------------------------------------------------
\* Context: the element store and the map child index
\* ------------------------------------------------------------------------
Empty == 0
Tombstone == 1
FirstValid == 2
maxLoad128th == 115
KeyDirAssocQty == 8
InitMapSize == 16

EmptyEntry == [hash |-> WFromNat(Empty, 4), childIndex |-> 0]

\* elements[i] and _entries[i]
Elt(c, i) == At0(c.elements, i)
Entry(c, i) == At0(c.entries, i)

\* the bytes of a C string up to its terminating zero
CStr(s) ==
    IF \A i \in 1..Len(s) : s[i] # NUL THEN s
    ELSE SubSeq(s, 1, (CHOOSE i \in 1..Len(s) :
                           s[i] = NUL /\ \A j \in 1..(i - 1) : s[j] # NUL) - 1)

\* strncmp(stored, key, keySize) == 0, the stored string being zero terminated
strncmpEq(stored, key, keySize) ==
    CStr(SubSeq(stored, 1, IF keySize < Len(stored) THEN keySize ELSE Len(stored)))
        = CStr(SubSeq(key, 1, keySize))

\* The hashes of the key names the specifications draw, computed once; any
\* other name is hashed when it is met.
LOWER_A == 97
LOWER_B == 98
LOWER_C == 99
LOWER_F == 102
LOWER_I == 105
LOWER_K == 107
LOWER_L == 108
LOWER_P == 112
LOWER_Q == 113
LOWER_Y == 121
Keys == {<<LOWER_A>>, <<LOWER_B>>}
\* nine names, the first eight of which fill one line of the initial table of
\* a map that is element 0
CrowdedKeys ==
    <<(<<LOWER_A>>), (<<LOWER_B>>), (<<LOWER_F>>), (<<LOWER_I>>), (<<LOWER_K>>),
      (<<LOWER_L>>), (<<LOWER_N>>), (<<LOWER_P>>), (<<LOWER_Q>>)>>
DictKeys == {<<LOWER_A>>, <<LOWER_Q>>, <<LOWER_C>>}
\* sixteen names, as many as the initial table has cells: the crowded ones first
IndexNames ==
    CrowdedKeys \o <<(<<LOWER_C>>), (<<LOWER_Y>>), (<<LOWER_X>>), (<<LOWER_R>>), (<<LOWER_T>>),
                     (<<LOWER_U>>), (<<LOWER_A, LOWER_A>>)>>
HashedKeys ==
    Keys \cup DictKeys \cup {CrowdedKeys[i] : i \in 1..Len(CrowdedKeys)}
         \cup {IndexNames[i] : i \in 1..Len(IndexNames)}
wyhashTable == [k \in HashedKeys |-> wyhash(k)]
wyhashOf(key) == IF key \in HashedKeys THEN wyhashTable[key] ELSE wyhash(key)

\* keyHash = parentEltIdx ^ (uint32_t)wyhash(key), moved out of the reserved values
KeyHash(parentEltIdx, key) ==
    With(WXor(WFromNat(parentEltIdx, 4), Low32(wyhashOf(key))), LAMBDA h :
         IF U32LessNat(h, FirstValid) THEN WFromNat(WLowNat(h, 1) + FirstValid, 4) ELSE h)

\* mask = (_maxEntryQty - 1) & ~(KeyDirAssocQty - 1)
BucketMask(c) == (c.maxEntryQty - 1) - ((c.maxEntryQty - 1) % KeyDirAssocQty)

\* the test made on a cell whose hash passed the loop condition: same hash, a
\* child index inside the parent, and a KEY child there with the same name
EntryMatches(c, e, keyHash, key, parentElt) ==
    /\ e.hash = keyHash
    /\ e.childIndex < getSubQty(parentElt)
    /\ LET childElt == Elt(c, getSub(parentElt, e.childIndex))
       IN /\ childElt.type = "KEY"
          /\ getStringSize(childElt) = Len(key) + 1
          /\ strncmpEq(childElt.str, key, Len(key))

\* the for loop over the cells of one cache line: it goes on while the cell's
\* hash is >= minHash, and returns at the first matching cell
RECURSIVE ScanLine(_, _, _, _, _, _, _)
ScanLine(c, keyHash, key, parentElt, idx, cellId, minHash) ==
    IF cellId < KeyDirAssocQty /\ ~U32LessNat(Entry(c, idx + cellId).hash, minHash)
    THEN IF EntryMatches(c, Entry(c, idx + cellId), keyHash, key, parentElt)
         THEN [found |-> TRUE, cellId |-> cellId]
         ELSE ScanLine(c, keyHash, key, parentElt, idx, cellId + 1, minHash)
    ELSE [found |-> FALSE, cellId |-> cellId]

\* the while (true) probe loop: line after line until a match or a line with a
\* cell below minHash
RECURSIVE ProbeKey(_, _, _, _, _, _, _)
ProbeKey(c, keyHash, key, parentElt, idx, probeIncr, minHash) ==
    With(ScanLine(c, keyHash, key, parentElt, idx, 0, minHash), LAMBDA r :
         IF r.found \/ r.cellId < KeyDirAssocQty
         THEN [found |-> r.found, slot |-> idx + r.cellId]
         ELSE ProbeKey(c, keyHash, key, parentElt,
                       BitAnd(idx + probeIncr * KeyDirAssocQty, BucketMask(c), 24),
                       probeIncr + 1, minHash))

\* idx = keyHash & mask
FirstLine(c, keyHash) == BitAnd(WLowNat(keyHash, 3), BucketMask(c), 24)

\* the probe both lookups and the removal make from the first line of the key:
\* where it stopped, and the hash it looked for
FindKey(c, parentEltIdx, key, parentElt, minHash) ==
    Bind(KeyHash(parentEltIdx, key), LAMBDA keyHash :
    With(ProbeKey(c, keyHash, key, parentElt, FirstLine(c, keyHash), 1, minHash), LAMBDA r :
         [found |-> r.found, slot |-> r.slot, keyHash |-> keyHash]))

\* Context::getMapChildIndex
getMapChildIndex(c, parentEltIdx, key, parentElt) ==
    With(FindKey(c, parentEltIdx, key, parentElt, Tombstone), LAMBDA r :
         IF r.found THEN Entry(c, r.slot).childIndex ELSE UINT_MAX)

\* the transfer of one valid entry of the old table into the new array
RECURSIVE ResizePlace(_, _, _, _, _)
ResizePlace(newArray, newMask, e, newIdx, probeIncr) ==
    LET free == {cellId \in 0..KeyDirAssocQty - 1 :
                    U32LessNat(At0(newArray, newIdx + cellId).hash, FirstValid)}
    IN IF free # {}
       THEN LET cellId == CHOOSE x \in free : \A y \in free : x <= y
            IN [newArray EXCEPT ![newIdx + cellId + 1] = e]
       ELSE ResizePlace(newArray, newMask, e,
                        BitAnd(newIdx + probeIncr * KeyDirAssocQty, newMask, 24), probeIncr + 1)

RECURSIVE ResizeTransfer(_, _, _, _)
ResizeTransfer(c, newArray, newMask, oldIdx) ==
    IF oldIdx >= c.maxEntryQty THEN newArray
    ELSE IF U32LessNat(Entry(c, oldIdx).hash, FirstValid)
         THEN ResizeTransfer(c, newArray, newMask, oldIdx + 1)
         ELSE CHOOSE done \in
                  {ResizeTransfer(c, placed, newMask, oldIdx + 1) :
                      placed \in {ResizePlace(newArray, newMask, Entry(c, oldIdx),
                                              BitAnd(WLowNat(Entry(c, oldIdx).hash, 3),
                                                     newMask, 24), 1)}} : TRUE

\* Context::resize
resize(c, newMaxSize) ==
    LET newMask == (newMaxSize - 1) - ((newMaxSize - 1) % KeyDirAssocQty)
        zeroed == [i \in 1..newMaxSize |-> EmptyEntry]
    IN [c EXCEPT !.entries = ResizeTransfer(c, zeroed, newMask, 0),
                 !.maxEntryQty = newMaxSize]

\* the growth of a table that doubled above 90/128 of its capacity
GrowAbove90(c) ==
    IF 128 * c.entryQty > 90 * c.maxEntryQty THEN resize(c, 2 * c.maxEntryQty) ELSE c

\* a table that never grows
GrowNever(c) == c

\* the growth of the table when the entry count passes the load limit
GrowIfLoaded(c) ==
    IF 128 * c.entryQty > maxLoad128th * c.maxEntryQty THEN resize(c, 2 * c.maxEntryQty) ELSE c

\* Context::addMapChildIndex; ret is TRUE when a new entry was added
addMapChildIndex(c, parentEltIdx, key, parentElt, childIndex) ==
    With(FindKey(c, parentEltIdx, key, parentElt, FirstValid), LAMBDA r :
         IF r.found
         THEN [c |-> [c EXCEPT !.entries[r.slot + 1].childIndex = childIndex], ret |-> FALSE]
         ELSE [c |-> GrowIfLoaded([c EXCEPT !.entries[r.slot + 1] =
                                         [hash |-> r.keyHash, childIndex |-> childIndex],
                                     !.entryQty = c.entryQty + 1]),
               ret |-> TRUE])

\* Context::removeMapChildIndex; asserted is TRUE when the "Key not present"
\* assertion is reached
removeMapChildIndex(c, parentEltIdx, key, parentElt) ==
    With(FindKey(c, parentEltIdx, key, parentElt, Tombstone), LAMBDA r :
         IF r.found
         THEN [c |-> [c EXCEPT !.entries[r.slot + 1] =
                          [hash |-> WFromNat(Tombstone, 4), childIndex |-> UINT_MAX]],
               ret |-> Entry(c, r.slot).childIndex, asserted |-> FALSE]
         ELSE [c |-> c, ret |-> UINT_MAX, asserted |-> TRUE])

\* Context::Context: an empty store and a zeroed table of InitMapSize entries
NewContext ==
    resize([elements |-> <<>>, arena |-> <<>>, entries |-> <<>>, entryQty |-> 0,
            maxEntryQty |-> 0],
           InitMapSize)

\* elements.emplace_back(e) and elements[i] = e
emplace(c, e) == [c EXCEPT !.elements = Append(c.elements, e)]
setElt(c, i, e) == [c EXCEPT !.elements[i + 1] = e]

\* Context::addString(text, textSize, stringIdx, stringSize): the bytes and
\* their final zero at the end of the arena. An element that refers to them
\* holds them in str.
addString(c, str) == [c EXCEPT !.arena = c.arena \o str \o <<NUL>>]

\* Context::addString(text, textSize, elt): the same, and elt->setString
addStringTo(c, i, e, str) == setElt(addString(c, str), i, setString(e, str))

\* ------------------------------------------------------------------------
\* Node: the handle on one element of a document
\* ------------------------------------------------------------------------
\* A handle is the element index and the pending key (empty when none).
\* A typed value is modelled by whether its type has a converter and by the
\* string its encoding gives.
Node(eltIdx, nonExistingKey) == [eltIdx |-> eltIdx, nonExistingKey |-> nonExistingKey]

\* The outcome of one call: the context and the handle after it, the error
\* thrown ("none" when it returned), the returned value, and whether the process
\* stopped on a failed assertion or a fault.
Ok(c, node, ret) == [c |-> c, node |-> node, err |-> "none", ret |-> ret, abort |-> FALSE]
AccessError(c, node) ==
    [c |-> c, node |-> node, err |-> "Access", ret |-> "none", abort |-> FALSE]
Abort(c, node) == [c |-> c, node |-> node, err |-> "none", ret |-> "none", abort |-> TRUE]

\* Node::operator bool
NodeBool(c, node) ==
    /\ node.eltIdx < Len(c.elements)
    /\ (Elt(c, node.eltIdx).type # "MAP" \/ node.nonExistingKey = <<>>)

\* Node::as<T>()
NodeAs(c, node, conv) ==
    LET elt == Elt(c, node.eltIdx)
    IN IF elt.type = "MAP" /\ node.nonExistingKey # <<>> THEN AccessError(c, node)
       ELSE IF elt.type # "VALUE" /\ elt.type # "UNKNOWN" THEN AccessError(c, node)
       ELSE IF ~conv THEN AccessError(c, node)
       ELSE Ok(c, node, IF elt.type = "VALUE" THEN CStr(elt.str) ELSE <<>>)

\* Node::as<T>(defaultValue)
NodeAsDefault(c, node, conv, defaultValue) ==
    LET elt == Elt(c, node.eltIdx)
    IN IF elt.type = "MAP" /\ node.nonExistingKey # <<>> THEN Ok(c, node, defaultValue)
       ELSE IF elt.type # "VALUE" /\ elt.type # "UNKNOWN" THEN AccessError(c, node)
       ELSE IF ~conv THEN AccessError(c, node)
       ELSE Ok(c, node, IF elt.type = "VALUE" THEN CStr(elt.str) ELSE <<>>)

\* AddKeyChild with the key put first among the children
AddKeyChildFirst(c, mapIdx, key, child) ==
    LET eltIdx == Len(c.elements)
        c1 == emplace(IF child.type = "VALUE" THEN addString(c, child.str) ELSE c, child)
        c2 == emplace(addString(c1, key), ElementKey(key, eltIdx))
        c3 == setElt(c2, mapIdx, insert(Elt(c2, mapIdx), 0, eltIdx + 1))
    IN addMapChildIndex(c3, mapIdx, key, Elt(c3, mapIdx), 0).c

\* the creation of a key and of its child under the map of a pending handle,
\* with the update of the child index (common tail of both assignments and of
\* insert(key, value)): the string of a value child is added to the arena, the
\* child created, the name of the key added, the key created
AddKeyChild(c, mapIdx, key, child) ==
    LET eltIdx == Len(c.elements)
        c1 == emplace(IF child.type = "VALUE" THEN addString(c, child.str) ELSE c, child)
        c2 == emplace(addString(c1, key), ElementKey(key, eltIdx))
        c3 == setElt(c2, mapIdx, add(Elt(c2, mapIdx), eltIdx + 1))
    IN addMapChildIndex(c3, mapIdx, key, Elt(c3, mapIdx), getSubQty(Elt(c3, mapIdx)) - 1).c

\* Node::operator=(const T&)
NodeAssign(c, node, v, ndebug) ==
    LET elt == Elt(c, node.eltIdx)
    IN IF ~v.conv THEN AccessError(c, node)
       ELSE IF elt.type = "VALUE"
       THEN Ok(addStringTo(c, node.eltIdx, elt, v.str), node, "none")
       ELSE IF node.nonExistingKey # <<>>
       THEN IF getMapChildIndex(c, node.eltIdx, node.nonExistingKey, elt) # UINT_MAX
            THEN AccessError(c, node)
            ELSE IF elt.type # "MAP" /\ ~ndebug THEN Abort(c, node)
            ELSE Ok(AddKeyChild(c, node.eltIdx, node.nonExistingKey,
                                ElementString("VALUE", v.str)),
                    Node(node.eltIdx, <<>>), "none")
       ELSE IF elt.type = "KEY" /\ ~ndebug THEN Abort(c, node)
       ELSE Ok(addStringTo(c, node.eltIdx, reset(elt, "VALUE"), v.str), node, "none")

\* Node::operator=(const NodeType)
NodeAssignKind(c, node, newKind) ==
    LET elt == Elt(c, node.eltIdx)
    IN IF newKind # "MAP" /\ newKind # "SEQUENCE" THEN AccessError(c, node)
       ELSE IF elt.type = "MAP" /\ node.nonExistingKey # <<>>
       THEN IF getMapChildIndex(c, node.eltIdx, node.nonExistingKey, elt) # UINT_MAX
            THEN AccessError(c, node)
            ELSE Ok(AddKeyChild(c, node.eltIdx, node.nonExistingKey, Element(newKind)),
                    Node(node.eltIdx, <<>>), "none")
       ELSE Ok(setElt(c, node.eltIdx, reset(elt, newKind)), node, "none")

\* Node::size
NodeSize(c, node) ==
    LET elt == Elt(c, node.eltIdx)
    IN IF elt.type # "MAP" /\ elt.type # "SEQUENCE" THEN AccessError(c, node)
       ELSE Ok(c, node, getSubQty(elt))

\* Node::begin and Node::end: the position in the child array of the element
NodeBegin(c, node) ==
    LET elt == Elt(c, node.eltIdx)
    IN IF elt.type # "MAP" /\ elt.type # "SEQUENCE" THEN AccessError(c, node)
       ELSE Ok(c, node, [subsOf |-> node.eltIdx, pos |-> 0])

NodeEnd(c, node) ==
    LET elt == Elt(c, node.eltIdx)
    IN IF elt.type # "MAP" /\ elt.type # "SEQUENCE" THEN AccessError(c, node)
       ELSE Ok(c, node, [subsOf |-> node.eltIdx, pos |-> getSubQty(elt)])

\* Node::hasKey
NodeHasKey(c, node, key) ==
    LET elt == Elt(c, node.eltIdx)
    IN IF elt.type # "MAP" THEN AccessError(c, node)
       ELSE IF key = <<>> THEN AccessError(c, node)
       ELSE Ok(c, node, getMapChildIndex(c, node.eltIdx, key, elt) # UINT_MAX)

\* Node::operator[](const std::string&): the returned handle is in ret
NodeAtKey(c, node, key) ==
    LET elt == Elt(c, node.eltIdx)
    IN IF elt.type # "MAP" THEN AccessError(c, node)
       ELSE IF key = <<>> THEN AccessError(c, node)
       ELSE IF node.nonExistingKey # <<>> THEN AccessError(c, node)
       ELSE With(getMapChildIndex(c, node.eltIdx, key, elt), LAMBDA childIndex :
            IF childIndex = UINT_MAX THEN Ok(c, node, Node(node.eltIdx, key))
            ELSE Ok(c, node, Node(Elt(c, getSub(elt, childIndex)).eltIdx, <<>>)))

\* insert(key, value) encoding the value after the value element is created
NodeInsertEncodeLate(c, node, key, v) ==
    LET elt == Elt(c, node.eltIdx)
        c1 == emplace(c, ElementString("VALUE", <<>>))
    IN IF elt.type # "MAP" THEN AccessError(c, node)
       ELSE IF key = <<>> THEN AccessError(c, node)
       ELSE IF node.nonExistingKey # <<>> THEN AccessError(c, node)
       ELSE IF getMapChildIndex(c, node.eltIdx, key, elt) # UINT_MAX THEN AccessError(c, node)
       ELSE IF ~v.conv THEN AccessError(c1, node)
       ELSE Ok(AddKeyChild(c, node.eltIdx, key, ElementString("VALUE", v.str)), node, "none")

\* Node::insert(const std::string&, const T&)
NodeInsert(c, node, key, v) ==
    LET elt == Elt(c, node.eltIdx)
    IN IF elt.type # "MAP" THEN AccessError(c, node)
       ELSE IF key = <<>> THEN AccessError(c, node)
       ELSE IF node.nonExistingKey # <<>> THEN AccessError(c, node)
       ELSE IF getMapChildIndex(c, node.eltIdx, key, elt) # UINT_MAX THEN AccessError(c, node)
       ELSE IF ~v.conv THEN AccessError(c, node)
       ELSE Ok(AddKeyChild(c, node.eltIdx, key, ElementString("VALUE", v.str)), node, "none")

\* Node::insert(const std::string&, const NodeType): the container itself is
\* added to the children of the map, and the index entry names its position
NodeInsertKind(c, node, key, newKind) ==
    LET elt == Elt(c, node.eltIdx)
        eltIdx == Len(c.elements)
        c1 == emplace(c, Element(newKind))
        c2 == setElt(c1, node.eltIdx, add(Elt(c1, node.eltIdx), eltIdx))
    IN IF elt.type # "MAP" THEN AccessError(c, node)
       ELSE IF key = <<>> THEN AccessError(c, node)
       ELSE IF node.nonExistingKey # <<>> THEN AccessError(c, node)
       ELSE IF newKind # "MAP" /\ newKind # "SEQUENCE" THEN AccessError(c, node)
       ELSE IF getMapChildIndex(c, node.eltIdx, key, elt) # UINT_MAX THEN AccessError(c, node)
       ELSE Ok(addMapChildIndex(c2, node.eltIdx, key, Elt(c2, node.eltIdx),
                                getSubQty(Elt(c2, node.eltIdx)) - 1).c, node, "none")

\* the bytes of the arena an element that is not a string is read as when it
\* is taken for one: typed.key.stringIdx overlays typed.container.subQty and
\* the string size is the compound, the capacity, so the name is the
\* compound - 1 bytes found at offset subQty of the arena. The bytes past the
\* end of the arena lie in the storage it reserved (arena.reserve) or past it
\* and were never written by the context: each is any byte.
UninitBytes == 0..255

ArenaReadsFrom(arena, offset, n) ==
    With(IF offset + n <= Len(arena) THEN n
         ELSE IF offset >= Len(arena) THEN 0 ELSE Len(arena) - offset, LAMBDA held :
         {SubSeq(arena, offset + 1, offset + held) \o rest :
              rest \in [1..(n - held) -> UninitBytes]})

\* the reads of the arena remove(key) may make on this handle: that of the
\* last child of the map, when it is a container with a capacity
ArenaReads(c, node) ==
    With(Elt(c, node.eltIdx), LAMBDA elt :
         IF elt.type # "MAP" \/ getSubQty(elt) = 0 THEN {<<>>}
         ELSE With(Elt(c, getSub(elt, getSubQty(elt) - 1)), LAMBDA lastElt :
                   IF lastElt.type \in {"MAP", "SEQUENCE"} /\ getCompound(lastElt) > 0
                   THEN ArenaReadsFrom(c.arena, Len(lastElt.subs), getCompound(lastElt) - 1)
                   ELSE {<<>>}))

\* the swap of the last child into the freed position, in Node::remove: the
\* index entry of the last child is removed, the child moved, the entry added
\* again with the new position. The name of the last child is read through the
\* string accessors of its element. They assert on an element that is not a
\* string. Without the assertions a container is read as the compound - 1
\* bytes at offset subQty of the arena (junk, one of ArenaReads): with compound 0 the length is
\* 0xFFFFFFFF and the hash faults; otherwise the entry of that name is removed
\* if there is one ("Key not present" is not asserted), and an entry of that
\* name is added for the moved child.
RemoveSwapLast(c, node, childIndex, ndebug, junk) ==
    LET elt == Elt(c, node.eltIdx)
        lastSub == getSub(elt, getSubQty(elt) - 1)
        lastElt == Elt(c, lastSub)
        elt2 == replace(elt, childIndex, lastSub)
        isString == lastElt.type \in {"KEY", "VALUE", "COMMENT"}
    IN IF ~isString /\ (~ndebug \/ getCompound(lastElt) = 0) THEN [abort |-> TRUE, c |-> c]
       ELSE With(IF isString THEN lastElt.str ELSE SubSeq(junk, 1, getCompound(lastElt) - 1),
                 LAMBDA name :
            With(removeMapChildIndex(c, node.eltIdx, name, elt), LAMBDA r2 :
            IF r2.asserted /\ ~ndebug THEN [abort |-> TRUE, c |-> c]
            ELSE [abort |-> FALSE,
                  c |-> addMapChildIndex(setElt(r2.c, node.eltIdx, elt2), node.eltIdx,
                                         name, elt2, childIndex).c]))

\* remove(key) erasing the child where it is, without the swap of the last one
NodeRemoveNoSwap(c, node, key, ndebug, junk) ==
    LET elt == Elt(c, node.eltIdx)
    IN IF elt.type # "MAP" THEN AccessError(c, node)
       ELSE With(removeMapChildIndex(c, node.eltIdx, key, elt), LAMBDA r1 :
            IF r1.asserted /\ ~ndebug THEN Abort(c, node)
            ELSE IF r1.ret = UINT_MAX THEN Ok(c, node, FALSE)
            ELSE Ok(setElt(r1.c, node.eltIdx, erase(elt, r1.ret)), node, TRUE))

\* the child removed, and the last element of the store released with it
RemoveChildShrink(c, node, childIndex, ndebug, junk) ==
    With(IF childIndex < getSubQty(Elt(c, node.eltIdx)) - 1
         THEN RemoveSwapLast(c, node, childIndex, ndebug, junk)
         ELSE [abort |-> FALSE, c |-> c], LAMBDA sw :
         [abort |-> sw.abort,
          c |-> [setElt(sw.c, node.eltIdx,
                        erase(Elt(sw.c, node.eltIdx), getSubQty(Elt(sw.c, node.eltIdx)) - 1))
                 EXCEPT !.elements = SubSeq(@, 1, Len(@) - 1)]])

\* the end of Node::remove once the index entry of the key is removed: the
\* swap when the child is not the last, then the erasure of the last child
RemoveChild(c, node, childIndex, ndebug, junk) ==
    With(IF childIndex < getSubQty(Elt(c, node.eltIdx)) - 1
         THEN RemoveSwapLast(c, node, childIndex, ndebug, junk)
         ELSE [abort |-> FALSE, c |-> c], LAMBDA sw :
         [abort |-> sw.abort,
          c |-> setElt(sw.c, node.eltIdx,
                       erase(Elt(sw.c, node.eltIdx), getSubQty(Elt(sw.c, node.eltIdx)) - 1))])

\* Node::remove(const std::string&)
NodeRemove(c, node, key, ndebug, junk) ==
    LET elt == Elt(c, node.eltIdx)
    IN IF elt.type # "MAP" THEN AccessError(c, node)
       ELSE With(removeMapChildIndex(c, node.eltIdx, key, elt), LAMBDA r1 :
            IF r1.asserted /\ ~ndebug THEN Abort(c, node)
            ELSE IF r1.ret = UINT_MAX THEN Ok(c, node, FALSE)
            ELSE With(RemoveChild(r1.c, node, r1.ret, ndebug, junk), LAMBDA sw :
                 IF sw.abort THEN Abort(c, node) ELSE Ok(sw.c, node, TRUE)))

\* Node::operator[](uint32_t)
NodeAtIndex(c, node, idx) ==
    LET elt == Elt(c, node.eltIdx)
    IN IF elt.type # "SEQUENCE" THEN AccessError(c, node)
       ELSE IF idx >= getSubQty(elt) THEN AccessError(c, node)
       ELSE Ok(c, node, Node(getSub(elt, idx), <<>>))

\* Node::push_back(const T&)
NodePushBack(c, node, v) ==
    LET elt == Elt(c, node.eltIdx)
        eltIdx == Len(c.elements)
        c1 == emplace(addString(c, v.str), ElementString("VALUE", v.str))
    IN IF elt.type # "SEQUENCE" THEN AccessError(c, node)
       ELSE IF ~v.conv THEN AccessError(c, node)
       ELSE Ok(setElt(c1, node.eltIdx, add(Elt(c1, node.eltIdx), eltIdx)), node, "none")

\* Node::push_back(const NodeType)
NodePushBackKind(c, node, newKind) ==
    LET elt == Elt(c, node.eltIdx)
        eltIdx == Len(c.elements)
        c1 == emplace(c, Element(newKind))
    IN IF newKind # "MAP" /\ newKind # "SEQUENCE" THEN AccessError(c, node)
       ELSE IF elt.type # "SEQUENCE" THEN AccessError(c, node)
       ELSE Ok(setElt(c1, node.eltIdx, add(Elt(c1, node.eltIdx), eltIdx)), node, "none")

\* the value added after the last child, whatever the position asked
NodeInsertAtEnd(c, node, idx, v) ==
    IF idx > getSubQty(Elt(c, node.eltIdx)) THEN AccessError(c, node)
    ELSE NodePushBack(c, node, v)

\* Node::insert(uint32_t, const T&)
NodeInsertAt(c, node, idx, v) ==
    LET elt == Elt(c, node.eltIdx)
        eltIdx == Len(c.elements)
        c1 == emplace(addString(c, v.str), ElementString("VALUE", v.str))
    IN IF elt.type # "SEQUENCE" THEN AccessError(c, node)
       ELSE IF idx > getSubQty(elt) THEN AccessError(c, node)
       ELSE IF ~v.conv THEN AccessError(c, node)
       ELSE Ok(setElt(c1, node.eltIdx, insert(Elt(c1, node.eltIdx), idx, eltIdx)), node, "none")

\* Node::insert(uint32_t, const NodeType)
NodeInsertAtKind(c, node, idx, newKind) ==
    LET elt == Elt(c, node.eltIdx)
        eltIdx == Len(c.elements)
        c1 == emplace(c, Element(newKind))
    IN IF newKind # "MAP" /\ newKind # "SEQUENCE" THEN AccessError(c, node)
       ELSE IF elt.type # "SEQUENCE" THEN AccessError(c, node)
       ELSE IF idx > getSubQty(elt) THEN AccessError(c, node)
       ELSE Ok(setElt(c1, node.eltIdx, insert(Elt(c1, node.eltIdx), idx, eltIdx)), node, "none")

\* Node::remove(uint32_t)
NodeRemoveAt(c, node, idx) ==
    LET elt == Elt(c, node.eltIdx)
    IN IF elt.type # "SEQUENCE" THEN AccessError(c, node)
       ELSE IF idx >= getSubQty(elt) THEN AccessError(c, node)
       ELSE Ok(setElt(c, node.eltIdx, erase(elt, idx)), node, "none")

\* Node::pop_back
NodePopBack(c, node) ==
    LET elt == Elt(c, node.eltIdx)
    IN IF elt.type # "SEQUENCE" THEN AccessError(c, node)
       ELSE IF getSubQty(elt) = 0 THEN AccessError(c, node)
       ELSE Ok(setElt(c, node.eltIdx, erase(elt, getSubQty(elt) - 1)), node, "none")

\* Document::Document(): the root key with an empty name, and the handle on it
NewDocument ==
    [c |-> addStringTo(emplace(NewContext, Element("KEY")), 0, Element("KEY"), <<>>),
     node |-> Node(0, <<>>)]

\* Document::initFromContext: the handle a document built from a context holds
initFromContext(c) ==
    IF c.elements # <<>> /\ getSubQty(Elt(c, 0)) > 0 THEN Node(Elt(c, 0).eltIdx, <<>>)
    ELSE Node(0, <<>>)

\* ------------------------------------------------------------------------
\* StringHelper: the line chunks of the string a token is built from
\* ------------------------------------------------------------------------
\* A StringHelper: the bytes gathered (arena), the line chunks, and the start
\* of the line being gathered; allocated tells whether the arena has storage
\* (it keeps it from one session to the next), fault whether the byte before
\* the storage was read when there was no storage
StringHelper ==
    [arena |-> <<>>, chunks |-> <<>>, startLineIdx |-> 0, allocated |-> FALSE, fault |-> FALSE]

\* startSession
shStart(sh) == [sh EXCEPT !.arena = <<>>, !.chunks = <<>>, !.startLineIdx = 0]

shEmpty(sh) == sh.chunks = <<>>

\* sh.arena.back(); on an empty arena the byte read is whatever lies before
\* the vector's storage: junk stands for it
shBack(sh, junk) == IF sh.arena = <<>> THEN junk ELSE sh.arena[Len(sh.arena)]

\* the helper once sh.arena.back() is read: with an empty arena that has no
\* storage the read is at the address before the null pointer
shRead(sh) == IF sh.arena = <<>> /\ ~sh.allocated THEN [sh EXCEPT !.fault = TRUE] ELSE sh

\* addLine
shAddLine(sh, line) ==
    [sh EXCEPT !.arena = sh.arena \o line,
               !.chunks = Append(sh.chunks, [startIdx |-> Len(sh.arena), size |-> Len(line)]),
               !.startLineIdx = Len(sh.arena) + Len(line),
               !.allocated = @ \/ sh.arena \o line # <<>>]

\* addChar
shAddChar(sh, ch) == [sh EXCEPT !.arena = Append(sh.arena, ch), !.allocated = TRUE]

\* addChunk
shAddChunk(sh, chunk) ==
    [sh EXCEPT !.arena = sh.arena \o chunk, !.allocated = @ \/ sh.arena \o chunk # <<>>]

\* the chunk without its trailing spaces and tabs
RECURSIVE NoTrail(_)
NoTrail(chunk) ==
    IF chunk # <<>> /\ chunk[Len(chunk)] \in {SP, TAB}
    THEN NoTrail(SubSeq(chunk, 1, Len(chunk) - 1)) ELSE chunk

\* addChunkNoTrail
shAddChunkNoTrail(sh, chunk) == shAddChunk(sh, NoTrail(chunk))

\* endLine
shEndLine(sh) ==
    [sh EXCEPT !.chunks = Append(sh.chunks, [startIdx |-> sh.startLineIdx,
                                             size |-> Len(sh.arena) - sh.startLineIdx]),
               !.startLineIdx = Len(sh.arena)]

\* the bytes of one line chunk
shChunk(sh, lc) == SubSeq(sh.arena, lc.startIdx + 1, lc.startIdx + lc.size)

\* findFirstOf and findFirstNotOf; UINT_MAX when there is none
RECURSIVE findFirstOf(_, _, _, _)
findFirstOf(text, textSize, chars, startPos) ==
    IF startPos >= textSize THEN UINT_MAX
    ELSE IF At0(text, startPos) \in chars THEN startPos
    ELSE findFirstOf(text, textSize, chars, startPos + 1)

RECURSIVE findFirstNotOf(_, _, _, _)
findFirstNotOf(text, textSize, chars, startPos) ==
    IF startPos >= textSize THEN UINT_MAX
    ELSE IF At0(text, startPos) \notin chars THEN startPos
    ELSE findFirstNotOf(text, textSize, chars, startPos + 1)

\* removeTrailingLines
RECURSIVE shRemoveTrailingLines(_)
shRemoveTrailingLines(sh) ==
    IF sh.chunks = <<>> THEN sh
    ELSE IF findFirstNotOf(sh.arena, sh.chunks[Len(sh.chunks)].startIdx
                                        + sh.chunks[Len(sh.chunks)].size,
                           {SP, TAB, CR, NL}, sh.chunks[Len(sh.chunks)].startIdx) # UINT_MAX
    THEN sh
    ELSE shRemoveTrailingLines([sh EXCEPT !.chunks = SubSeq(sh.chunks, 1, Len(sh.chunks) - 1)])

\* the string of the session: the chunks one after the other
RECURSIVE shJoin(_, _)
shJoin(sh, k) == IF k > Len(sh.chunks) THEN <<>> ELSE shChunk(sh, sh.chunks[k]) \o shJoin(sh, k + 1)

\* ------------------------------------------------------------------------
\* The text being parsed
\* ------------------------------------------------------------------------
\* The buffer handed to parse, the bytes that follow it in memory, and the
\* byte that precedes the storage of an empty vector.
Memory(text, after, junk) == [text |-> text, after |-> after, junk |-> junk]

endIdxOf(mem) == Len(mem.text)

\* text[i]; past the bytes that follow the buffer the memory reads as zero
TextAt(mem, i) ==
    IF i < Len(mem.text) THEN mem.text[i + 1]
    ELSE IF i - Len(mem.text) < Len(mem.after) THEN mem.after[i - Len(mem.text) + 1]
    ELSE NUL

\* the size bytes at text + from
TextSub(mem, from, size) == [k \in 1..size |-> TextAt(mem, from + k - 1)]

IsEol(ch) == ch = NL \/ ch = CR

\* while (i < endIdx && text[i] in chars) ++i
RECURSIVE SkipIn(_, _, _)
SkipIn(mem, i, chars) ==
    IF i < endIdxOf(mem) /\ TextAt(mem, i) \in chars THEN SkipIn(mem, i + 1, chars) ELSE i

\* while (text[i] in chars) ++i, which does not look at endIdx
RECURSIVE SkipUnbounded(_, _, _)
SkipUnbounded(mem, i, chars) ==
    IF TextAt(mem, i) \in chars THEN SkipUnbounded(mem, i + 1, chars) ELSE i

\* while (i < endIdx && text[i] is not an end of line) ++i
RECURSIVE SkipToEol(_, _)
SkipToEol(mem, i) ==
    IF i < endIdxOf(mem) /\ ~IsEol(TextAt(mem, i)) THEN SkipToEol(mem, i + 1) ELSE i

\* the size of the end of line at i: 2 for "\r\n" inside the buffer, else 1
EolSize(mem, i) ==
    IF i + 1 < endIdxOf(mem) /\ TextAt(mem, i) = CR /\ TextAt(mem, i + 1) = NL THEN 2 ELSE 1

\* ------------------------------------------------------------------------
\* getToken
\* ------------------------------------------------------------------------
TabError == "Parse error: using tabulation is not accepted for indentation"
ChompError == "Parse error: chomp cannot be provided more than once"
IndentError == "Parse error: explicit indentation cannot be provided more than once"
SingleQuoteError == "Parse error: unfinished single-quote string"
DoubleQuoteError == "Parse error: unfinished double-quote string"
\* not an exception: the process stops on the read at the address before the
\* null pointer of an arena that has no storage
ArenaFault == "fault: sh.arena.back() on an arena without storage"

\* what getToken returns and leaves in colNbr, lineNbr and idx; err is the
\* message of the Parse error thrown, "none" when it returned
Token(type, startColNbr, str, colNbr, lineNbr, idx, sh) ==
    [err |-> "none", type |-> type, startColNbr |-> startColNbr, str |-> str,
     colNbr |-> colNbr, lineNbr |-> lineNbr, idx |-> idx, sh |-> sh]

TokenError(msg, lineNbr) ==
    [err |-> msg, type |-> "Eos", startColNbr |-> -1, str |-> <<>>,
     colNbr |-> 0, lineNbr |-> lineNbr, idx |-> 0, sh |-> StringHelper]

\* the state of the scan of a string: the kind of string (mlType), the chomp,
\* isNewLine, the position, the indent the lines must have (targetIndent), the
\* chunks gathered, and whether the loop over the lines was left (done)
StringScan(mlType, chomp, isNewLine, idx, colNbr, lineNbr, targetIndent, sh) ==
    [mlType |-> mlType, chomp |-> chomp, isNewLine |-> isNewLine, idx |-> idx,
     colNbr |-> colNbr, lineNbr |-> lineNbr, targetIndent |-> targetIndent, sh |-> sh,
     isKey |-> FALSE, indentedFoldedLine |-> FALSE, done |-> FALSE, err |-> "none"]

\* the opening quote: the leading spaces are kept, and counted in colNbr
QuoteHeader(mem, mlType, isNewLine, colNbr, lineNbr, idx, sh) ==
    With(SkipIn(mem, idx + 1, {SP}) - (idx + 1), LAMBDA spaces :
         StringScan(mlType, SP, isNewLine, idx + 1, colNbr + 1 + spaces, lineNbr, 0,
                    [sh EXCEPT !.arena = [k \in 1..spaces |-> SP],
                               !.allocated = @ \/ spaces > 0]))

\* one pass of the loop that reads the chomp and the explicit indent
HeaderPass(mem, h) ==
    IF h.err # "none" \/ h.idx >= endIdxOf(mem) THEN h
    ELSE IF TextAt(mem, h.idx) \in {PLUS, DASH}
    THEN IF h.chomp # SP THEN [h EXCEPT !.err = ChompError]
         ELSE [h EXCEPT !.chomp = TextAt(mem, h.idx), !.idx = @ + 1, !.colNbr = @ + 1]
    ELSE IF TextAt(mem, h.idx) >= DIGIT1 /\ TextAt(mem, h.idx) <= DIGIT9
    THEN IF h.deltaIndent >= 0 THEN [h EXCEPT !.err = IndentError]
         ELSE [h EXCEPT !.deltaIndent = TextAt(mem, h.idx) - DIGIT0, !.idx = @ + 1,
                        !.colNbr = @ + 1]
    ELSE h

\* the end of the header line of a literal or folded string
BlockHeaderEnd(mem, mlType, parentIndent, lineNbr, h, sh) ==
    IF h.err # "none" THEN [err |-> h.err]
    ELSE With(SkipToEol(mem, h.idx), LAMBDA eol :
         StringScan(mlType, h.chomp, TRUE, eol + EolSize(mem, eol), 0, lineNbr + 1,
                    IF h.deltaIndent >= 0 THEN parentIndent + h.deltaIndent ELSE -1, sh))

\* the header of a literal or folded string
BlockHeader(mem, mlType, parentIndent, colNbr, lineNbr, idx, sh) ==
    BlockHeaderEnd(mem, mlType, parentIndent, lineNbr,
        HeaderPass(mem, HeaderPass(mem,
            [idx |-> idx + 1, colNbr |-> colNbr + 1, chomp |-> SP, deltaIndent |-> -1,
             err |-> "none"])), sh)

\* the kind of string the first character announces, and the scan it starts
StringHeader(mem, parentIndent, isNewLine, colNbr, lineNbr, idx, sh) ==
    IF TextAt(mem, idx) \in {SQ, DQ}
    THEN QuoteHeader(mem, TextAt(mem, idx), isNewLine, colNbr, lineNbr, idx, sh)
    ELSE IF TextAt(mem, idx) \in {PIPE, GT}
    THEN BlockHeader(mem, TextAt(mem, idx), parentIndent, colNbr, lineNbr, idx, sh)
    ELSE StringScan(SP, SP, isNewLine, idx, colNbr, lineNbr,
                    IF colNbr > parentIndent THEN parentIndent + 1 ELSE colNbr, sh)

\* what one line of a string gives: where it ends, whether the string ends on
\* it, and the chunks
LineEnd(lineEndIdx, isEnd, sh, indentedFoldedLine) ==
    [lineEndIdx |-> lineEndIdx, isEndOfStringReached |-> isEnd, sh |-> sh,
     indentedFoldedLine |-> indentedFoldedLine,
     err |-> IF sh.fault THEN ArenaFault ELSE "none"]

\* the position of a quoted line being read: the end reached, the start of the
\* chunk not yet added, isFirstAdd, and the chunks
QuotePos(lineEndIdx, chunkStartIdx, isFirstAdd, sh) ==
    [lineEndIdx |-> lineEndIdx, chunkStartIdx |-> chunkStartIdx, isFirstAdd |-> isFirstAdd,
     sh |-> sh]

\* the space that joins a quoted line to the previous one
JoinSpace(mem, q) ==
    IF ~q.isFirstAdd THEN q.sh
    ELSE IF shBack(q.sh, mem.junk) # NL THEN shAddChar(shRead(q.sh), SP)
    ELSE shRead(q.sh)

\* the chunk read since chunkStartIdx, up to size bytes
PendingChunk(mem, q, sh, size) ==
    IF size > 0 THEN shAddChunk(sh, TextSub(mem, q.chunkStartIdx, size)) ELSE sh

\* single quote: the loop over the characters of one line
RECURSIVE SingleQuoteLoop(_, _)
SingleQuoteLoop(mem, q) ==
    IF q.lineEndIdx < endIdxOf(mem) /\ ~IsEol(TextAt(mem, q.lineEndIdx))
    THEN IF TextAt(mem, q.lineEndIdx) # SQ
         THEN SingleQuoteLoop(mem, [q EXCEPT !.lineEndIdx = @ + 1])
         ELSE IF q.lineEndIdx + 1 < endIdxOf(mem) /\ TextAt(mem, q.lineEndIdx + 1) = SQ
         THEN SingleQuoteLoop(mem,
                  QuotePos(q.lineEndIdx + 2, q.lineEndIdx + 2, FALSE,
                           shAddChunk(JoinSpace(mem, q),
                                      TextSub(mem, q.chunkStartIdx,
                                              q.lineEndIdx + 1 - q.chunkStartIdx))))
         ELSE q
    ELSE q

\* double quote: the character that follows a backslash at lineEndIdx - 1
DoubleQuoteEscaped(mem, lineEndIdx, isFirstAdd, sh) ==
    IF lineEndIdx >= endIdxOf(mem) THEN QuotePos(lineEndIdx, lineEndIdx, isFirstAdd, sh)
    ELSE IF TextAt(mem, lineEndIdx) = LOWER_N
    THEN QuotePos(lineEndIdx + 1, lineEndIdx + 1, isFirstAdd, shAddChar(sh, NL))
    ELSE IF TextAt(mem, lineEndIdx) = LOWER_R
    THEN QuotePos(lineEndIdx + 1, lineEndIdx + 1, isFirstAdd, shAddChar(sh, CR))
    ELSE IF TextAt(mem, lineEndIdx) = LOWER_T
    THEN QuotePos(lineEndIdx + 1, lineEndIdx + 1, isFirstAdd, shAddChar(sh, TAB))
    ELSE IF TextAt(mem, lineEndIdx) = DQ
    THEN QuotePos(lineEndIdx + 1, lineEndIdx + 1, isFirstAdd, shAddChar(sh, DQ))
    ELSE IF TextAt(mem, lineEndIdx) = BSL
    THEN QuotePos(lineEndIdx + 1, lineEndIdx + 1, isFirstAdd, shAddChar(sh, BSL))
    ELSE IF IsEol(TextAt(mem, lineEndIdx))
    THEN With(IF TextAt(mem, lineEndIdx) = CR THEN lineEndIdx + 1 ELSE lineEndIdx, LAMBDA e1 :
         With(SkipUnbounded(mem, IF TextAt(mem, e1) = NL THEN e1 + 1 ELSE e1, {SP}), LAMBDA e3 :
              QuotePos(e3, e3, isFirstAdd, sh)))
    ELSE QuotePos(lineEndIdx + 1, lineEndIdx + 1, isFirstAdd,
                  shAddChar(shAddChar(sh, BSL), TextAt(mem, lineEndIdx)))

\* double quote: a backslash at lineEndIdx
DoubleQuoteEscape(mem, q) ==
    DoubleQuoteEscaped(mem, q.lineEndIdx + 1,
                       q.isFirstAdd /\ shBack(q.sh, mem.junk) = NL,
                       PendingChunk(mem, q, JoinSpace(mem, q), q.lineEndIdx - q.chunkStartIdx))

\* double quote: the loop over the characters of one line
RECURSIVE DoubleQuoteLoop(_, _)
DoubleQuoteLoop(mem, q) ==
    IF q.lineEndIdx < endIdxOf(mem) /\ TextAt(mem, q.lineEndIdx) \notin {NL, CR, DQ}
    THEN IF TextAt(mem, q.lineEndIdx) # BSL
         THEN DoubleQuoteLoop(mem, [q EXCEPT !.lineEndIdx = @ + 1])
         ELSE DoubleQuoteLoop(mem, DoubleQuoteEscape(mem, q))
    ELSE q

\* the end of a quoted line, once its characters are read
QuoteLineEnd(mem, quote, nonSpaceIdx, q, sh) ==
    IF sh.fault THEN [err |-> ArenaFault]
    ELSE IF q.lineEndIdx >= endIdxOf(mem)
    THEN [err |-> IF quote = SQ THEN SingleQuoteError ELSE DoubleQuoteError]
    ELSE IF TextAt(mem, q.lineEndIdx) = quote
    THEN LineEnd(SkipUnbounded(mem, q.lineEndIdx + 1, {SP, TAB}), TRUE, sh, FALSE)
    ELSE LineEnd(q.lineEndIdx, FALSE,
                 IF nonSpaceIdx = q.lineEndIdx THEN shAddLine(sh, <<NL>>) ELSE sh, FALSE)

\* one line of a quoted string
QuoteLine(mem, quote, nonSpaceIdx, q) ==
    QuoteLineEnd(mem, quote, nonSpaceIdx, q,
                 PendingChunk(mem, q, JoinSpace(mem, q), q.lineEndIdx - q.chunkStartIdx))

\* one line of a literal string; the line starts at s.idx, its first
\* character other than a space is at nonSpaceIdx
LiteralLine(mem, s, nonSpaceIdx, lineEndIdx) ==
    IF lineEndIdx # nonSpaceIdx /\ s.colNbr < s.targetIndent
    THEN LineEnd(nonSpaceIdx, TRUE, s.sh, s.indentedFoldedLine)
    ELSE LineEnd(lineEndIdx, FALSE,
                 IF lineEndIdx >= s.idx + s.targetIndent
                 THEN shAddChunk(IF shEmpty(s.sh) THEN s.sh ELSE shAddChar(s.sh, NL),
                                 TextSub(mem, s.idx + s.targetIndent,
                                         lineEndIdx - (s.idx + s.targetIndent)))
                 ELSE IF shEmpty(s.sh) THEN s.sh ELSE shAddChar(s.sh, NL),
                 s.indentedFoldedLine)

\* folded string: the character that joins the line to the previous ones
FoldedJoin(mem, s, lineEndIdx) ==
    IF \/ lineEndIdx <= s.idx + s.targetIndent
       \/ (~shEmpty(s.sh) /\ TextAt(mem, s.idx + s.targetIndent) = SP)
       \/ s.indentedFoldedLine
    THEN shAddChar(s.sh, NL)
    ELSE IF lineEndIdx > s.idx + s.targetIndent /\ ~shEmpty(s.sh)
    THEN (IF shBack(s.sh, mem.junk) # NL THEN shAddChar(shRead(s.sh), SP) ELSE shRead(s.sh))
    ELSE s.sh

\* one line of a folded string
FoldedLine(mem, s, nonSpaceIdx, lineEndIdx) ==
    IF lineEndIdx # nonSpaceIdx /\ s.colNbr < s.targetIndent
    THEN LineEnd(nonSpaceIdx, TRUE, s.sh, s.indentedFoldedLine)
    ELSE LineEnd(lineEndIdx, FALSE,
                 IF lineEndIdx > s.idx + s.targetIndent
                 THEN shAddChunk(FoldedJoin(mem, s, lineEndIdx),
                                 TextSub(mem, s.idx + s.targetIndent,
                                         lineEndIdx - (s.idx + s.targetIndent)))
                 ELSE FoldedJoin(mem, s, lineEndIdx),
                 lineEndIdx > s.idx + s.targetIndent
                     /\ TextAt(mem, s.idx + s.targetIndent) = SP)

\* plain string: the end of the run of characters of the line that starts at
\* idx, which a comment, a key colon or the end of the line stops
PlainGoesOn(mem, idx, lineEndIdx) ==
    /\ lineEndIdx < endIdxOf(mem)
    /\ ~IsEol(TextAt(mem, lineEndIdx))
    /\ \/ TextAt(mem, lineEndIdx) # HASH
       \/ lineEndIdx = idx
       \/ TextAt(mem, lineEndIdx - 1) # SP
    /\ \/ TextAt(mem, lineEndIdx) # COLON
       \/ /\ lineEndIdx + 1 # endIdxOf(mem)
          /\ TextAt(mem, lineEndIdx + 1) \notin {SP, NL, CR}

\* while (PlainGoesOn) ++lineEndIdx: the first position from lineEndIdx on
\* where the run stops
PlainRun(mem, idx, lineEndIdx) ==
    IF lineEndIdx >= endIdxOf(mem) THEN lineEndIdx
    ELSE CHOOSE j \in lineEndIdx..endIdxOf(mem) :
             /\ ~PlainGoesOn(mem, idx, j)
             /\ \A i \in lineEndIdx..(j - 1) : PlainGoesOn(mem, idx, i)

\* plain string: the line when it belongs to the string
PlainKept(mem, s, nonSpaceIdx, lineEndIdx, isEnd) ==
    With(shAddChunkNoTrail(IF shEmpty(s.sh) THEN s.sh
                           ELSE IF shBack(s.sh, mem.junk) # NL
                           THEN shAddChar(shRead(s.sh), SP) ELSE shRead(s.sh),
                           TextSub(mem, nonSpaceIdx, lineEndIdx - nonSpaceIdx)), LAMBDA sh :
         LineEnd(lineEndIdx, isEnd,
                 IF ~isEnd /\ nonSpaceIdx = lineEndIdx THEN shAddLine(sh, <<NL>>) ELSE sh,
                 s.indentedFoldedLine))

\* one line of a plain string
PlainLine(mem, s, nonSpaceIdx, lineEndIdx) ==
    IF lineEndIdx # nonSpaceIdx /\ s.colNbr < s.targetIndent
    THEN LineEnd(nonSpaceIdx, TRUE, s.sh, s.indentedFoldedLine)
    ELSE PlainKept(mem, s, nonSpaceIdx, lineEndIdx,
                   lineEndIdx < endIdxOf(mem) /\ ~IsEol(TextAt(mem, lineEndIdx)))

\* one line of the string, by the kind of the string
StringLine(mem, s, nonSpaceIdx) ==
    IF s.mlType = SQ
    THEN QuoteLine(mem, SQ, nonSpaceIdx,
                   SingleQuoteLoop(mem, QuotePos(nonSpaceIdx, nonSpaceIdx, ~shEmpty(s.sh), s.sh)))
    ELSE IF s.mlType = DQ
    THEN QuoteLine(mem, DQ, nonSpaceIdx,
                   DoubleQuoteLoop(mem, QuotePos(nonSpaceIdx, nonSpaceIdx, ~shEmpty(s.sh), s.sh)))
    ELSE IF s.mlType = PIPE THEN LiteralLine(mem, s, nonSpaceIdx, SkipToEol(mem, nonSpaceIdx))
    ELSE IF s.mlType = GT THEN FoldedLine(mem, s, nonSpaceIdx, SkipToEol(mem, nonSpaceIdx))
    ELSE PlainLine(mem, s, nonSpaceIdx, PlainRun(mem, s.idx, nonSpaceIdx))

\* the colon that makes a key of the string that ends at lineEndIdx
IsKeyColon(mem, lineEndIdx) ==
    /\ TextAt(mem, lineEndIdx) = COLON
    /\ \/ lineEndIdx + 1 = endIdxOf(mem)
       \/ TextAt(mem, lineEndIdx + 1) \in {SP, NL, CR}

\* the string goes on with the line that starts at idx
NextLine(mem, s, r, idx) ==
    [s EXCEPT !.sh = shEndLine(r.sh), !.indentedFoldedLine = r.indentedFoldedLine,
              !.idx = idx, !.colNbr = 0, !.lineNbr = @ + 1,
              !.err = IF idx < endIdxOf(mem) THEN "none"
                      ELSE IF s.mlType = DQ THEN DoubleQuoteError
                      ELSE IF s.mlType = SQ THEN SingleQuoteError
                      ELSE "none"]

\* the end of one turn of the loop over the lines
FinalizeLine(mem, s, nonSpaceIdx, r) ==
    IF r.err # "none" THEN [s EXCEPT !.err = r.err]
    ELSE IF r.isEndOfStringReached
    THEN With(IF IsKeyColon(mem, r.lineEndIdx) THEN r.lineEndIdx + 1 ELSE r.lineEndIdx,
              LAMBDA lineEndIdx :
              [s EXCEPT !.sh = shEndLine(r.sh), !.indentedFoldedLine = r.indentedFoldedLine,
                        !.isKey = lineEndIdx # r.lineEndIdx, !.idx = lineEndIdx,
                        !.colNbr = @ + (lineEndIdx - nonSpaceIdx), !.done = TRUE])
    ELSE NextLine(mem, s, r, r.lineEndIdx + EolSize(mem, r.lineEndIdx))

\* a line of the string whose indent is known
IndentedLine(mem, s, nonSpaceIdx) == FinalizeLine(mem, s, nonSpaceIdx, StringLine(mem, s, nonSpaceIdx))

\* one turn of the loop over the lines of the string
OneLine(mem, s, nonSpaceIdx) ==
    IF s.isNewLine /\ nonSpaceIdx < endIdxOf(mem) /\ TextAt(mem, nonSpaceIdx) = TAB
    THEN [s EXCEPT !.err = TabError]
    ELSE IF s.targetIndent < 0 /\ IsEol(TextAt(mem, nonSpaceIdx))
    THEN [s EXCEPT !.sh = shAddLine(s.sh, IF shEmpty(s.sh) THEN <<>> ELSE <<NL>>),
                   !.idx = nonSpaceIdx + EolSize(mem, nonSpaceIdx),
                   !.indentedFoldedLine = TRUE, !.lineNbr = @ + 1, !.colNbr = 0]
    ELSE IndentedLine(mem,
             [s EXCEPT !.colNbr = @ + (nonSpaceIdx - s.idx),
                       !.targetIndent = IF @ < 0 THEN s.colNbr + (nonSpaceIdx - s.idx) ELSE @],
             nonSpaceIdx)

\* the loop over the lines of the string
RECURSIVE StringLines(_, _)
StringLines(mem, s) ==
    IF s.err # "none" \/ s.done \/ s.idx >= endIdxOf(mem) THEN s
    ELSE StringLines(mem, OneLine(mem, s, SkipIn(mem, s.idx, {SP})))

\* "Apply the chomp": the helper once its trailing empty lines are removed
Chomped(s) ==
    IF s.mlType \notin {SQ, DQ} /\ s.chomp \in {DASH, SP}
    THEN shRemoveTrailingLines(s.sh) ELSE s.sh

\* the string of the token: the chunks left by the chomp, the final line feed
TokenString(s) ==
    shJoin(Chomped(s), 1)
        \o (IF s.mlType \in {PIPE, GT} /\ s.chomp \in {SP, PLUS} THEN <<NL>> ELSE <<>>)

\* the token of a string once its lines are read; the helper is left chomped
StringToken(startColNbr, s) ==
    IF s.err # "none" THEN TokenError(s.err, s.lineNbr)
    ELSE Token(IF s.isKey THEN "Key" ELSE "StringValue", startColNbr, TokenString(s),
               s.colNbr, s.lineNbr, s.idx, Chomped(s))

\* the header of the string, then its lines
ScanString(mem, startColNbr, lineNbr, h) ==
    IF h.err # "none" THEN TokenError(h.err, lineNbr)
    ELSE StringToken(startColNbr, StringLines(mem, h))

\* getToken from the first character that is not a space, at idx
TokenAt(mem, parentIndent, sh, isNewLine, colNbr, lineNbr, idx) ==
    IF idx >= endIdxOf(mem) THEN Token("Eos", colNbr, <<>>, colNbr, lineNbr, idx, sh)
    ELSE IF IsEol(TextAt(mem, idx))
    THEN Token("Newline", colNbr, <<>>, 0, lineNbr + 1, idx + EolSize(mem, idx), sh)
    ELSE IF /\ TextAt(mem, idx) = DASH
            /\ (idx + 1 = endIdxOf(mem) \/ TextAt(mem, idx + 1) \in {SP, CR, NL})
    THEN Token("Caret", colNbr, <<>>, colNbr + 1, lineNbr, idx + 1, sh)
    ELSE IF TextAt(mem, idx) = HASH
    THEN With(SkipToEol(mem, idx), LAMBDA eol :
              Token("Comment", colNbr, TextSub(mem, idx + 1, eol - (idx + 1)),
                    colNbr + (eol - idx), lineNbr, eol, sh))
    ELSE ScanString(mem, colNbr, lineNbr,
                    StringHeader(mem, parentIndent, isNewLine, colNbr, lineNbr, idx,
                                 shStart(sh)))

\* getToken
getToken(mem, parentIndent, sh, colNbr, lineNbr, idx) ==
    With(IF colNbr = 0 THEN SkipIn(mem, idx, {SP}) ELSE SkipIn(mem, idx, {SP, TAB}),
         LAMBDA idxFnp :
         IF colNbr = 0 /\ TextAt(mem, idxFnp) = TAB THEN TokenError(TabError, lineNbr)
         ELSE TokenAt(mem, parentIndent, sh, colNbr = 0, colNbr + (idxFnp - idx), lineNbr,
                      idxFnp))

\* ------------------------------------------------------------------------
\* parse
\* ------------------------------------------------------------------------
\* The errors of the builder, by the format of their message.
CaretParentError == "Parse error: the indentation of the caret (=%d) does not match any parent (=%d)"
CaretAlignError == "Parse error: the indentation of the caret (=%d) is not aligned with other child elements (=%d)"
CaretValueError == "Parse error: probably bad indentation with caret, as the parent ('%s') already has a value"
KeyParentError == "Parse error: the indentation of the key (=%d) does not match any parent (=%d)"
KeyAlignError == "Parse error: the indentation of the key (=%d) is not aligned with other child elements (=%d)"
KeyValueError == "Parse error: probably bad indentation, as the parent ('%s') already has a value"
DuplicatedKeyError == "Parse error: duplicated key are forbidden and the key '%s' is already present."
ValueIndentError == "Parse error: the indentation of the value (=%d) is not compatible with the parent indentation (=%d)"
ValueAlignError == "Parse error: the indentation of the value (=%d) is not aligned with other child elements (=%d)"
ValueInMapError == "Parse error: in a map, a value without a key is forbidden"

ParseItem(eltIdx, indent, childIndent) ==
    [eltIdx |-> eltIdx, indent |-> indent, childIndent |-> childIndent]

\* stack.back(); on an empty stack the item read is none of the stack's (the
\* builder does not read it: its loop ends on the empty stack)
Back(stack) == IF stack = <<>> THEN ParseItem(0, -1, -1) ELSE stack[Len(stack)]

\* the state of the builder: the context, the stack and the copy of its last
\* item (parent), the position of the tokenizer, the line and the position
\* left by the turn before (tokenLineNbr, tokenIdx), the error thrown, whether
\* its message was written past the buffer it is built in (overrun), and
\* whether back() was called on the empty stack
ParseStart ==
    [c |-> addStringTo(emplace(NewContext, Element("KEY")), 0, Element("KEY"), <<>>),
     stack |-> <<ParseItem(0, -1, -1)>>, parent |-> ParseItem(0, -1, -1),
     mlStringParentIndent |-> -1, indexColNbr |-> 0, lineNbr |-> 1, startIdx |-> 0,
     sh |-> StringHelper,
     tokenLineNbr |-> 1, tokenIdx |-> 0,
     isEndOfInput |-> FALSE, err |-> "none", overrun |-> FALSE, emptyBack |-> FALSE]

ParentElt(p) == Elt(p.c, p.parent.eltIdx)

\* stack.pop_back(); parent = stack.back()
PopStack(p) ==
    [p EXCEPT !.stack = SubSeq(p.stack, 1, Len(p.stack) - 1),
              !.parent = Back(SubSeq(p.stack, 1, Len(p.stack) - 1)),
              !.emptyBack = @ \/ Len(p.stack) = 1]

\* stack.back().childIndent = colNbr; parent = stack.back()
SetChildIndent(p, colNbr) ==
    [p EXCEPT !.stack[Len(p.stack)].childIndent = colNbr,
              !.parent = [p.stack[Len(p.stack)] EXCEPT !.childIndent = colNbr]]

\* a new element, pushed on the stack and added to the parent's element;
\* it becomes the parent
PushElt(p, e, indent, childIndent) ==
    [p EXCEPT !.c = setElt(emplace(p.c, e), p.parent.eltIdx,
                           add(ParentElt(p), Len(p.c.elements))),
              !.stack = Append(p.stack, ParseItem(Len(p.c.elements), indent, childIndent)),
              !.parent = ParseItem(Len(p.c.elements), indent, childIndent)]

\* a Parse error whose message has no string argument: the message, its
\* footer and the copy of the line fit the buffer of throwParsing
Fail(p, msg) == [p EXCEPT !.err = msg]

\* the number of digits "%d" writes for a line number
RECURSIVE Digits(_)
Digits(n) == IF n < 10 THEN 1 ELSE 1 + Digits(n \div 10)

\* throwParsing: the sizes of its buffer and of its parts
BufferSize == 512
LineCopySize == 128
ReservedSize == 32

\* strlen("\n  In line %d: \"") without its "%d"
FooterSize == 14

\* the line copied: the bytes from lineStart up to a zero, a CR or a line
\* feed, LineCopySize of them at most (the end of the buffer is not looked at)
LineEnds(mem, lineStart, n) ==
    n = LineCopySize \/ TextAt(mem, lineStart + n) \in {NUL, CR, NL}

LengthToWrite(mem, lineStart) ==
    CHOOSE n \in 0..LineCopySize :
        LineEnds(mem, lineStart, n) /\ \A m \in 0..(n - 1) : ~LineEnds(mem, lineStart, m)

\* the offset in tmpStr of the last byte written, the main message taking
\* written bytes if it were not cut: vsnprintf cuts it to BufferSize -
\* LineCopySize - ReservedSize bytes but returns written, and the footer, the
\* copy of the line, the "..." of a line that was cut and the closing quote
\* are written from that offset on, each with its final zero
LastWritten(written, lineNbr, lengthToWrite) ==
    IF lengthToWrite = 0 THEN written + FooterSize + Digits(lineNbr)
    ELSE written + FooterSize + Digits(lineNbr) + lengthToWrite
             + (IF lengthToWrite = LineCopySize THEN 3 ELSE 0) + 1

\* throwParsing(lineNbr, lineStartPtr, format, ...): the Parse error thrown,
\* named by its format, and whether bytes were written past tmpStr
throwParsing(mem, lineNbr, lineStart, format, written) ==
    [err |-> format,
     overrun |-> LastWritten(written, lineNbr, LengthToWrite(mem, lineStart)) >= BufferSize]

\* the builder after throwParsing
FailParsing(p, thrown) == [p EXCEPT !.err = thrown.err, !.overrun = thrown.overrun]

\* the end of the chain of comments that starts at the element eltIdx
RECURSIVE LastOfComments(_, _)
LastOfComments(c, eltIdx) ==
    IF getNextCommentIndex(Elt(c, eltIdx)) # 0
    THEN LastOfComments(c, getNextCommentIndex(Elt(c, eltIdx)))
    ELSE eltIdx

\* the comment element eltIdx is attached from the element parentCommentEltIdx
AttachComment(c, parentCommentEltIdx, eltIdx) ==
    IF Elt(c, parentCommentEltIdx).type = "UNKNOWN" THEN c
    ELSE With(LastOfComments(c, parentCommentEltIdx), LAMBDA last :
              setElt(c, last, setComment(Elt(c, last), eltIdx)))

\* case TokenType::Comment
OnComment(p, token, isStartingWithNewLine) ==
    [p EXCEPT !.c =
        AttachComment(
            emplace(p.c, [ElementString("COMMENT", token.str)
                              EXCEPT !.isStandalone = IF isStartingWithNewLine THEN 1 ELSE 0]),
            IF ParentElt(p).type = "UNKNOWN" /\ Len(p.stack) >= 2
            THEN p.stack[Len(p.stack) - 1].eltIdx ELSE p.parent.eltIdx,
            Len(p.c.elements))]

\* the condition of the loop that pops the stack for a caret
CaretPops(p, colNbr) ==
    /\ p.stack # <<>>
    /\ (ParentElt(p).type # "KEY" \/ colNbr # p.parent.indent)
    /\ \/ ParentElt(p).type # "UNKNOWN"
       \/ Len(p.stack) < 2
       \/ Elt(p.c, p.stack[Len(p.stack) - 1].eltIdx).type # "KEY"
       \/ colNbr # p.stack[Len(p.stack) - 1].indent
    /\ colNbr <= p.parent.indent
    /\ (p.parent.childIndent < 0 \/ colNbr < p.parent.childIndent)

RECURSIVE PopForCaret(_, _)
PopForCaret(p, colNbr) == IF CaretPops(p, colNbr) THEN PopForCaret(PopStack(p), colNbr) ELSE p

\* the untyped parent of a caret becomes the sequence
UnknownToSequence(p, colNbr) ==
    [p EXCEPT !.c = setElt(p.c, p.parent.eltIdx, reset(ParentElt(p), "SEQUENCE")),
              !.stack = [k \in 1..Len(p.stack) |->
                            IF k = Len(p.stack) THEN ParseItem(p.stack[k].eltIdx, colNbr, colNbr)
                            ELSE IF k = Len(p.stack) - 1 /\ p.stack[k].childIndent < 0
                            THEN [p.stack[k] EXCEPT !.childIndent = colNbr]
                            ELSE p.stack[k]],
              !.parent = ParseItem(p.stack[Len(p.stack)].eltIdx, colNbr, colNbr)]

\* "Insert a sequence if the parent isn't one"
CaretSequence(p, colNbr) ==
    IF ParentElt(p).type = "SEQUENCE" THEN p
    ELSE IF ParentElt(p).type = "UNKNOWN" THEN UnknownToSequence(p, colNbr)
    ELSE IF ParentElt(p).type = "KEY" /\ getSubQty(ParentElt(p)) > 0 THEN Fail(p, CaretValueError)
    ELSE PushElt(p, Element("SEQUENCE"), colNbr, colNbr)

\* the caret once the stack is popped
CaretPlaced(p, colNbr) ==
    IF p.stack = <<>> THEN Fail(p, CaretParentError)
    ELSE IF p.parent.childIndent >= 0 /\ colNbr # p.parent.childIndent
    THEN Fail(p, CaretAlignError)
    ELSE With(CaretSequence(p, colNbr), LAMBDA p1 :
              IF p1.err # "none" THEN p1 ELSE PushElt(p1, Element("UNKNOWN"), colNbr, -1))

\* case TokenType::Caret
OnCaret(p, token) ==
    CaretPlaced(PopForCaret([p EXCEPT !.mlStringParentIndent = token.startColNbr],
                            token.startColNbr), token.startColNbr)

RECURSIVE PopForKey(_, _)
PopForKey(p, colNbr) ==
    IF p.stack # <<>> /\ colNbr <= p.parent.indent THEN PopForKey(PopStack(p), colNbr) ELSE p

\* "Insert a map if the parent isn't one"
KeyMap(p) ==
    IF ParentElt(p).type = "MAP" THEN p
    ELSE IF ParentElt(p).type = "UNKNOWN"
    THEN [p EXCEPT !.c = setElt(p.c, p.parent.eltIdx, reset(ParentElt(p), "MAP"))]
    ELSE IF ParentElt(p).type = "KEY" /\ getSubQty(ParentElt(p)) > 0 THEN Fail(p, KeyValueError)
    ELSE PushElt(p, Element("MAP"), p.parent.indent, -1)

\* the key is pushed on the stack and added to the map: the state before the
\* update of the index
KeyPushed(p, token, colNbr) ==
    [p EXCEPT !.c = setElt(emplace(p.c, ElementString("KEY", token.str)), p.parent.eltIdx,
                           add(ParentElt(p), Len(p.c.elements))),
              !.stack = Append(IF p.parent.childIndent < 0
                               THEN [p.stack EXCEPT ![Len(p.stack)].childIndent = colNbr]
                               ELSE p.stack,
                               ParseItem(Len(p.c.elements), colNbr, -1))]

\* the index entry of the key, and the untyped element of its value
KeyIndexed(mem, p, token, colNbr, r) ==
    IF ~r.ret
    THEN FailParsing(p, throwParsing(mem, p.tokenLineNbr, p.tokenIdx, DuplicatedKeyError,
                                     Len(DuplicatedKeyError) - 2 + Len(CStr(token.str))))
    ELSE PushElt([p EXCEPT !.c = r.c, !.parent = Back(p.stack)], Element("UNKNOWN"), colNbr, -1)

\* "Add key"
KeyAdd(mem, p, token, colNbr) ==
    IF p.err # "none" THEN p
    ELSE With(KeyPushed(p, token, colNbr), LAMBDA p1 :
              KeyIndexed(mem, p1, token, colNbr,
                         addMapChildIndex(p1.c, p1.parent.eltIdx, token.str, ParentElt(p1),
                                          getSubQty(ParentElt(p1)) - 1)))

\* the key once the stack is popped
KeyPlaced(mem, p, token, colNbr) ==
    IF p.stack = <<>> THEN Fail(p, KeyParentError)
    ELSE IF p.parent.childIndent >= 0 /\ colNbr < p.parent.childIndent
    THEN Fail(p, KeyAlignError)
    ELSE KeyAdd(mem, KeyMap(IF p.parent.childIndent < 0 THEN SetChildIndent(p, colNbr) ELSE p),
                token, colNbr)

\* case TokenType::Key
OnKey(mem, p, token) ==
    KeyPlaced(mem, PopForKey([p EXCEPT !.mlStringParentIndent = token.startColNbr],
                        token.startColNbr), token, token.startColNbr)

\* "If the parent is a key, pop it from the stack"
PopKey(p) == IF ParentElt(p).type = "KEY" THEN PopStack(p) ELSE p

\* "Create the string value, either by typing an untyped node or creating a new one"
ValueStored(p, token) ==
    IF ParentElt(p).type = "UNKNOWN"
    THEN PopKey(PopStack([p EXCEPT !.c = setElt(p.c, p.parent.eltIdx,
                                               setString(reset(ParentElt(p), "VALUE"),
                                                         token.str))]))
    ELSE PopKey([p EXCEPT !.c = setElt(emplace(p.c, ElementString("VALUE", token.str)),
                                       p.parent.eltIdx,
                                       add(ParentElt(p), Len(p.c.elements)))])

\* case TokenType::StringValue without the test of a map parent
OnStringValueUntested(p, token) ==
    IF token.startColNbr <= p.parent.indent THEN Fail(p, ValueIndentError)
    ELSE IF p.parent.childIndent >= 0 /\ token.startColNbr < p.parent.childIndent
    THEN Fail(p, ValueAlignError)
    ELSE ValueStored(IF p.parent.childIndent < 0 THEN SetChildIndent(p, token.startColNbr)
                     ELSE p, token)

\* case TokenType::StringValue
OnStringValue(p, token) ==
    IF token.startColNbr <= p.parent.indent THEN Fail(p, ValueIndentError)
    ELSE IF p.parent.childIndent >= 0 /\ token.startColNbr < p.parent.childIndent
    THEN Fail(p, ValueAlignError)
    ELSE IF ParentElt(p).type = "MAP" THEN Fail(p, ValueInMapError)
    ELSE ValueStored(IF p.parent.childIndent < 0 THEN SetChildIndent(p, token.startColNbr)
                     ELSE p, token)

\* the switch on the type of the token
OnToken(mem, p, token, isStartingWithNewLine) ==
    IF token.type = "Comment" THEN OnComment(p, token, isStartingWithNewLine)
    ELSE IF token.type = "Caret" THEN OnCaret(p, token)
    ELSE IF token.type = "Key" THEN OnKey(mem, p, token)
    ELSE IF token.type = "StringValue" THEN OnStringValue(p, token)
    ELSE IF token.type = "Newline"
    THEN [p EXCEPT !.mlStringParentIndent = p.parent.indent, !.indexColNbr = 0]
    ELSE [p EXCEPT !.isEndOfInput = TRUE]

\* the context once getToken has returned: the string of a Comment, a Key or a
\* StringValue was added to its arena (addString, commitSession)
TokenStored(c, token) ==
    IF token.type \in {"Comment", "Key", "StringValue"} THEN addString(c, token.str) ELSE c

\* one turn of the loop of parse: the next token, then its case, then
\* tokenLineNbr = lineNbr and tokenIdx = startIdx
ParseToken(mem, p, token) ==
    IF token.err # "none" THEN Fail(p, token.err)
    ELSE Bind(OnToken(mem, [p EXCEPT !.indexColNbr = token.colNbr, !.lineNbr = token.lineNbr,
                                     !.startIdx = token.idx, !.sh = token.sh,
                                     !.c = TokenStored(p.c, token)],
                      token, p.indexColNbr = 0), LAMBDA q :
              IF q.err # "none" THEN q
              ELSE [q EXCEPT !.tokenLineNbr = q.lineNbr, !.tokenIdx = q.startIdx])

RECURSIVE ParseLoop(_, _)
ParseLoop(mem, p) ==
    IF p.isEndOfInput \/ p.stack = <<>> \/ p.err # "none" THEN p
    ELSE ParseLoop(mem, ParseToken(mem, p, getToken(mem, p.mlStringParentIndent, p.sh,
                                               p.indexColNbr, p.lineNbr, p.startIdx)))

\* parse(text, textSize): the document (its context and its handle) or the
\* Parse error, and whether its message overran its buffer
parse(mem) ==
    With(ParseLoop(mem, ParseStart), LAMBDA p :
         [err |-> p.err, overrun |-> p.overrun, c |-> p.c, node |-> initFromContext(p.c),
          emptyBack |-> p.emptyBack])

\* whether the process stops in a parse that ended as r did: it does on the
\* fault of getToken; after bytes were written past the buffer of throwParsing
\* the behaviour is undefined, the error is thrown or the process stops
ParseStops(r) ==
    IF r.err = ArenaFault THEN {TRUE} ELSE IF r.overrun THEN BOOLEAN ELSE {FALSE}

\* parse(const char* text): the bytes up to the terminating zero
parseCString(bytes, junk) == parse(Memory(CStr(bytes), <<NUL>>, junk))

\* ------------------------------------------------------------------------
\* The emitters
\* ------------------------------------------------------------------------
COMMA == 44
LBRACKET == 91
RBRACKET == 93
LBRACE == 123
RBRACE == 125
NoneText == <<78, 111, 110, 101>>       \* "None"
KeyEndText == <<SQ, SP, COLON, SP>>     \* "' : "
indentStr == <<SP, SP>>

\* "sh.arena.reserve(16384); sh.startSession();"
Reserved == shStart([StringHelper EXCEPT !.allocated = TRUE])

\* "for (int i = 0; i < indent; ++i) sh.addChunk(indentStr, indentSize)"
RECURSIVE AddIndent(_, _)
AddIndent(sh, indent) ==
    IF indent <= 0 THEN sh ELSE AddIndent(shAddChunk(sh, indentStr), indent - 1)

\* the escape of the byte text[findPos] in a double-quoted string
EscapeOf(sh, text, textSize, findPos) ==
    IF At0(text, findPos) = DQ THEN shAddChar(shAddChar(sh, BSL), DQ)
    ELSE IF At0(text, findPos) = NL THEN shAddChar(shAddChar(sh, BSL), LOWER_N)
    ELSE IF At0(text, findPos) = CR THEN shAddChar(shAddChar(sh, BSL), LOWER_R)
    ELSE IF At0(text, findPos) = TAB THEN shAddChar(shAddChar(sh, BSL), LOWER_T)
    ELSE IF At0(text, findPos) = BSL
    THEN shAddChar(IF findPos + 1 >= textSize
                      \/ At0(text, findPos + 1) \notin {LOWER_U, UPPER_U, LOWER_X}
                   THEN shAddChar(sh, BSL) ELSE sh, BSL)
    ELSE sh

\* the loop on findFirstOf<5>(text, textSize, "\\\n\r\t\"", lastPos) and the
\* last chunk: the same code in both emitters
RECURSIVE Escaped(_, _, _)
EscapedAt(sh, text, lastPos, findPos) ==
    IF findPos = UINT_MAX THEN shAddChunk(sh, SubSeq(text, lastPos + 1, Len(text)))
    ELSE Escaped(EscapeOf(shAddChunk(sh, SubSeq(text, lastPos + 1, findPos)),
                          text, Len(text), findPos),
                 text, findPos + 1)
Escaped(sh, text, lastPos) ==
    EscapedAt(sh, text, lastPos, findFirstOf(text, Len(text), {BSL, NL, CR, TAB, DQ}, lastPos))

\* DumpItem of dumpAsPyStruct; node is the index of the element
PyItem(node, indent, isEnd, withPrefix, isLast) ==
    [node |-> node, indent |-> indent, isEnd |-> isEnd, withPrefix |-> withPrefix,
     isLast |-> isLast]

\* "if (withPrefix) { sh.addChar('\n'); for (...) sh.addChunk(indentStr, indentSize); }"
PyPrefix(sh, withPrefix, indent) ==
    IF withPrefix THEN AddIndent(shAddChar(sh, NL), indent) ELSE sh

\* "if (!isLast) sh.addChar(',')"
PyComma(sh, isLast) == IF isLast THEN sh ELSE shAddChar(sh, COMMA)

\* the items of the children of a container, the first child on top
PyChildren(v, indent, isOneLiner) ==
    [k \in 1..getSubQty(v) |->
        PyItem(getSub(v, getSubQty(v) - k), indent + 1, FALSE, ~isOneLiner, k = 1)]

\* a SEQUENCE or a MAP: its opening and its children, or its closing
PyContainer(c, d, it, v, withPrefix, open, close) ==
    IF it.isEnd
    THEN [d EXCEPT !.sh = PyComma(shAddChar(PyPrefix(d.sh, withPrefix, it.indent), close),
                                  it.isLast)]
    ELSE [d EXCEPT !.stack = Append(d.stack,
                                    PyItem(it.node, it.indent, TRUE, getSubQty(v) > 1, it.isLast))
                             \o PyChildren(v, it.indent, getSubQty(v) <= 1),
                   !.sh = shAddChar(PyPrefix(d.sh, withPrefix, it.indent), open)]

PyKey(c, d, it, v, withPrefix) ==
    With(IF getStringSize(v) > 1
         THEN shAddChunk(shAddChunk(shAddChar(PyPrefix(d.sh, withPrefix, it.indent), SQ), v.str),
                         KeyEndText)
         ELSE d.sh,
         LAMBDA sh :
             IF getSubQty(v) # 0
             THEN [d EXCEPT !.sh = sh,
                            !.stack = Append(d.stack, PyItem(v.eltIdx, it.indent, FALSE, FALSE,
                                                             it.isLast))]
             ELSE [d EXCEPT !.sh = PyComma(shAddChunk(sh, NoneText), it.isLast)])

PyValue(c, d, it, v, withPrefix) ==
    IF getStringSize(v) <= 1
    THEN [d EXCEPT !.sh = PyComma(shAddChunk(PyPrefix(d.sh, withPrefix, it.indent), NoneText),
                                  it.isLast)]
    ELSE [d EXCEPT !.sh = PyComma(shAddChar(Escaped(shAddChar(PyPrefix(d.sh, withPrefix,
                                                                        it.indent), DQ),
                                                    v.str, 0), DQ),
                                  it.isLast)]

\* the body of the loop on the stack, on the popped item it
PyEmit(c, d, it, v, withPrefix) ==
    IF v.type = "KEY" THEN PyKey(c, d, it, v, withPrefix)
    ELSE IF v.type = "SEQUENCE" THEN PyContainer(c, d, it, v, withPrefix, LBRACKET, RBRACKET)
    ELSE IF v.type = "MAP" THEN PyContainer(c, d, it, v, withPrefix, LBRACE, RBRACE)
    ELSE IF v.type = "VALUE" THEN PyValue(c, d, it, v, withPrefix)
    ELSE IF v.type = "COMMENT" THEN d
    ELSE [d EXCEPT !.sh = PyComma(shAddChunk(PyPrefix(d.sh, withPrefix, it.indent), NoneText),
                                  it.isLast)]

RECURSIVE PyLoop(_, _, _)
PyLoop(c, d, withIndent) ==
    IF d.stack = <<>> THEN d
    ELSE PyLoop(c,
                PyEmit(c, [d EXCEPT !.stack = SubSeq(d.stack, 1, Len(d.stack) - 1)],
                       d.stack[Len(d.stack)], Elt(c, d.stack[Len(d.stack)].node),
                       withIndent /\ d.stack[Len(d.stack)].withPrefix),
                withIndent)

\* dumpAsPyStruct: the bytes of the returned string, its final zero included
dumpAsPyStruct(c, withIndent) ==
    With(PyLoop(c, [stack |-> <<PyItem(0, 0, FALSE, FALSE, TRUE)>>, sh |-> Reserved],
                withIndent).sh.arena,
         LAMBDA a : (IF a # <<>> /\ a[Len(a)] = COMMA THEN SubSeq(a, 1, Len(a) - 1) ELSE a)
                    \o <<NUL>>)

\* DumpItem of dumpAsYaml; node is the index of the element
YamlItem(node, indent, parentType) ==
    [node |-> node, indent |-> indent, parentType |-> parentType]

\* "if (!isFirst) sh.addChar('\n'); for (...) sh.addChunk(indentStr, indentSize);"
YamlLine(y, indent) ==
    [y EXCEPT !.sh = AddIndent(IF y.isFirst THEN y.sh ELSE shAddChar(y.sh, NL), indent)]

\* "sh.addChar('-'); sh.addChar(' ');"
YamlDash(y) == [y EXCEPT !.sh = shAddChar(shAddChar(y.sh, DASH), SP)]

\* the items of the children of a container, the first child on top
YamlChildren(v, indent, parentType) ==
    [k \in 1..getSubQty(v) |-> YamlItem(getSub(v, getSubQty(v) - k), indent, parentType)]

YamlKey(y, it, v) ==
    With(IF getStringSize(v) > 1
         THEN [(IF it.parentType = "SEQUENCE" THEN y ELSE YamlLine(y, it.indent))
                   EXCEPT !.sh = shAddChar(shAddChunk(@, v.str), COLON), !.isFirst = FALSE]
         ELSE y,
         LAMBDA y1 :
             [y1 EXCEPT !.stack =
                            IF getSubQty(v) # 0
                            THEN Append(y1.stack,
                                        YamlItem(v.eltIdx,
                                                 IF getStringSize(v) <= 1 THEN it.indent
                                                 ELSE IF it.parentType = "SEQUENCE"
                                                 THEN it.indent + 2 ELSE it.indent + 1,
                                                 "KEY"))
                            ELSE y1.stack,
                        !.lastIsKey = TRUE])

\* the start of a container that is the child of a sequence: "- " on a new line
YamlNested(y, it) ==
    IF it.parentType = "SEQUENCE" THEN YamlDash(YamlLine(y, it.indent)) ELSE y

NestedIndent(it) == IF it.parentType = "SEQUENCE" THEN it.indent + 1 ELSE it.indent

YamlSequence(y, it, v) ==
    [YamlNested(y, it) EXCEPT !.stack = y.stack \o YamlChildren(v, NestedIndent(it), "SEQUENCE"),
                              !.isFirst = FALSE]

\* "stack.back().indent -= 1; stack.back().parentType = parentType;": the item
\* on top of the stack, which is the first child of the map when it has
\* children; on an empty stack the write lands outside the vector
TopAdjusted(stack) ==
    IF stack = <<>> THEN stack
    ELSE [stack EXCEPT ![Len(stack)] =
              YamlItem(stack[Len(stack)].node, stack[Len(stack)].indent - 1, "SEQUENCE")]

YamlMap(y, it, v) ==
    [YamlNested(y, it) EXCEPT
        !.stack = IF it.parentType = "SEQUENCE"
                  THEN TopAdjusted(y.stack \o YamlChildren(v, NestedIndent(it), "MAP"))
                  ELSE y.stack \o YamlChildren(v, NestedIndent(it), "MAP"),
        !.emptyBack = @ \/ (it.parentType = "SEQUENCE" /\ y.stack = <<>> /\ getSubQty(v) = 0)]

\* the loop that analyzes the string: whether it can be plain, and its count
\* of line feeds
RECURSIVE AnalyzeString(_, _, _, _)
AnalyzeString(text, idx, isPlain, newLineCount) ==
    IF idx >= Len(text) THEN [isPlain |-> isPlain, newLineCount |-> newLineCount]
    ELSE AnalyzeString(text, idx + 1,
                       /\ isPlain
                       /\ ~(/\ At0(text, idx) = COLON
                            /\ idx + 1 < Len(text)
                            /\ At0(text, idx + 1) \in {SP, CR, NL})
                       /\ ~(At0(text, idx) = HASH /\ (idx = 0 \/ At0(text, idx - 1) = SP)),
                       IF At0(text, idx) = NL THEN newLineCount + 1 ELSE newLineCount)

\* the loop on findFirstOf<1>(text, textSize, "\'", lastPos) and the last chunk
RECURSIVE SingleQuoted(_, _, _)
SingleQuotedAt(sh, text, lastPos, findPos) ==
    IF findPos = UINT_MAX THEN shAddChunk(sh, SubSeq(text, lastPos + 1, Len(text)))
    ELSE SingleQuoted(shAddChar(shAddChar(shAddChunk(sh, SubSeq(text, lastPos + 1, findPos)),
                                          SQ), SQ),
                      text, findPos + 1)
SingleQuoted(sh, text, lastPos) ==
    SingleQuotedAt(sh, text, lastPos, findFirstOf(text, Len(text), {SQ}, lastPos))

\* "Output the string in the right format": plain, single-quoted, or
\* double-quoted (the literal style is behind "true ||" and never taken; the
\* count of the trailing line feeds only serves that choice)
YamlString(sh, text, a, lastIsKey) ==
    With(IF lastIsKey THEN shAddChar(sh, SP) ELSE sh, LAMBDA sh1 :
         IF a.isPlain /\ a.newLineCount = 0 THEN shAddChunk(sh1, text)
         ELSE IF a.newLineCount = 0
         THEN shAddChar(SingleQuoted(shAddChar(sh1, SQ), text, 0), SQ)
         ELSE shAddChar(Escaped(shAddChar(sh1, DQ), text, 0), DQ))

YamlValue(y, it, v) ==
    With(IF it.parentType # "KEY" \/ y.lastIsComment
         THEN (IF it.parentType = "SEQUENCE" THEN YamlDash(YamlLine(y, it.indent))
               ELSE YamlLine(y, it.indent))
         ELSE y,
         LAMBDA y1 :
             IF getStringSize(v) > 1
             THEN [y1 EXCEPT !.sh = YamlString(y1.sh, v.str,
                                       AnalyzeString(v.str, 0,
                                           /\ At0(v.str, 0) \notin {SP, GT, PIPE, SQ, DQ}
                                           /\ At0(v.str, Len(v.str) - 1) # SP,
                                           0),
                                       y1.lastIsKey),
                             !.isFirst = FALSE]
             ELSE y1)

\* a comment, on its line or after the text of the line
YamlCommentText(y, e, indent, ownLine) ==
    [(IF ownLine THEN YamlLine(y, indent) ELSE [y EXCEPT !.sh = shAddChar(y.sh, SP)])
        EXCEPT !.sh = shAddChunk(shAddChar(@, HASH), e.str),
               !.lastIsComment = TRUE, !.isFirst = FALSE]

YamlUnknown(y, it) ==
    IF it.parentType = "KEY" THEN y
    ELSE IF it.parentType = "SEQUENCE" THEN YamlDash(YamlLine(y, it.indent))
    ELSE YamlLine(y, it.indent)

\* the indentation after the element is emitted, which its comments take
IndentAfter(it, v) ==
    IF v.type = "KEY"
    THEN (IF getStringSize(v) <= 1 THEN it.indent
          ELSE IF it.parentType = "SEQUENCE" THEN it.indent + 2 ELSE it.indent + 1)
    ELSE IF v.type \in {"SEQUENCE", "MAP", "VALUE", "UNKNOWN"} /\ it.parentType = "SEQUENCE"
    THEN it.indent + 1
    ELSE it.indent

YamlEmit(c, y, it, v) ==
    IF v.type = "KEY" THEN YamlKey(y, it, v)
    ELSE IF v.type = "SEQUENCE" THEN YamlSequence(y, it, v)
    ELSE IF v.type = "MAP" THEN YamlMap(y, it, v)
    ELSE IF v.type = "VALUE" THEN YamlValue(y, it, v)
    ELSE IF v.type = "COMMENT" THEN YamlCommentText(y, v, it.indent, v.isStandalone # 0)
    ELSE YamlUnknown(y, it)

\* "Comment piggybacking": the chain of comments of the element
RECURSIVE YamlComments(_, _, _, _)
YamlComments(c, y, indent, nextCommentEltIdx) ==
    IF nextCommentEltIdx = 0 THEN y
    ELSE YamlComments(c,
                      YamlCommentText(y, Elt(c, nextCommentEltIdx), indent,
                                      y.lastIsComment
                                          \/ Elt(c, nextCommentEltIdx).isStandalone # 0),
                      indent, getNextCommentIndex(Elt(c, nextCommentEltIdx)))

\* the flags after the element, then its comments
YamlAfter(c, y, it, v) ==
    YamlComments(c, [y EXCEPT !.lastIsComment = @ /\ v.type = "COMMENT",
                              !.lastIsKey = @ /\ v.type = "KEY"],
                 IndentAfter(it, v), getNextCommentIndex(v))

RECURSIVE YamlLoop(_, _)
YamlLoop(c, y) ==
    IF y.stack = <<>> THEN y
    ELSE YamlLoop(c, YamlAfter(c,
                               YamlEmit(c, [y EXCEPT !.stack = SubSeq(y.stack, 1, Len(y.stack) - 1)],
                                        y.stack[Len(y.stack)], Elt(c, y.stack[Len(y.stack)].node)),
                               y.stack[Len(y.stack)], Elt(c, y.stack[Len(y.stack)].node)))

\* the emitter at the end of its loop
YamlDump(c) ==
    YamlLoop(c, [stack |-> <<YamlItem(0, 0, Elt(c, 0).type)>>, sh |-> Reserved,
                 isFirst |-> TRUE, lastIsComment |-> FALSE, lastIsKey |-> FALSE,
                 emptyBack |-> FALSE])

\* dumpAsYaml: the bytes of the returned string, its final zero included. When
\* stack.back() was written on the empty stack, the two words before the
\* storage of the vector, which belong to the allocator, were overwritten: the
\* release of the vector ends the process and no string is returned (abort).
dumpAsYaml(c) ==
    With(YamlDump(c), LAMBDA y :
         [abort |-> y.emptyBack,
          str |-> IF y.emptyBack THEN <<>> ELSE Append(y.sh.arena, NUL)])

\* ------------------------------------------------------------------------
\* Bounds and inputs of the API state machine
\* ------------------------------------------------------------------------
MaxCalls == 3
MaxIdx == 1

KeyArgs == Keys \cup {<<>>}
StringVal(str) == [conv |-> TRUE, str |-> str]
NoConverter == [conv |-> FALSE, str |-> <<>>]
Vals == {StringVal(<<LOWER_X>>), NoConverter}
Kinds == {"MAP", "SEQUENCE", "VALUE"}
Targets == {"root", "node"}

\* ------------------------------------------------------------------------
\* State of a program using one document
\* ------------------------------------------------------------------------
VARIABLES
    ctx,      \* the Context of the document
    root,     \* the Document, a handle
    node,     \* a Node the program holds
    err,      \* the error the last call threw, "none" when it returned
    ndebug,   \* TRUE when the build has no assertions
    aborted,  \* TRUE once the process stopped on an assertion or a fault
    ref,      \* the reference dictionary of the root map (SpecDict)
    calls,    \* the number of calls made so far that changed the context
    rt,       \* the round trip of a text: its stage and its strings (SpecRT)
    builder,  \* a parse in progress: the memory read and the state of its loop (SpecParse)
    pair      \* two texts parsed and emitted side by side (SpecPair)

vars == <<ctx, root, node, err, ndebug, aborted, ref, calls, rt, builder, pair>>

\* the round trip of text at its first stage; yaml1 and py1 are the strings
\* emitted from the first tree, yaml2 and py2 those emitted from the second
RoundTrip(stage, text) ==
    [stage |-> stage, text |-> text, yaml1 |-> <<>>, py1 |-> <<>>, yaml2 |-> <<>>, py2 |-> <<>>]

\* no round trip is under way
NoRoundTrip == RoundTrip("none", <<>>)

\* no parse is in progress, and no pair of texts is held
NoBuilder == [stage |-> "none"]
NoPair == [stage |-> "none"]

Handle(t) == IF t = "root" THEN root ELSE node

\* one call on the handle t: the context and the handle take the values the
\* call leaves; at most MaxCalls calls change the context
Call(t, r) ==
    /\ ~aborted
    /\ calls' = IF r.c # ctx THEN calls + 1 ELSE calls
    /\ calls' <= MaxCalls
    /\ ctx' = r.c
    /\ root' = IF t = "root" THEN r.node ELSE root
    /\ node' = IF t = "node" THEN r.node ELSE node
    /\ err' = r.err
    /\ aborted' = r.abort
    /\ UNCHANGED <<ndebug, ref, rt, builder, pair>>

\* a call returning a Node, which the program keeps in node
CallNode(t, r) ==
    /\ ~aborted
    /\ ctx' = r.c
    /\ root' = root
    /\ node' = IF r.err = "none" THEN r.ret ELSE node
    /\ err' = r.err
    /\ aborted' = r.abort
    /\ UNCHANGED <<ndebug, ref, calls, rt, builder, pair>>

\* the text "a: 1", "b: 2", "#b", one per line: a map of two keys followed by
\* a comment that reads as the name of the second
CommentedText ==
    <<LOWER_A, COLON, SP, DIGIT1, NL, LOWER_B, COLON, SP, DIGIT1 + 1, NL, HASH, LOWER_B, NL>>

\* Document root = parse(text)
SeedParsed ==
    With(parse(Memory(CommentedText, <<NUL>>, NUL)), LAMBDA r :
         [c |-> r.c, node |-> r.node, calls |-> 0])

\* Document root; root = MAP; root.insert("a", "x"); root.insert("b", SEQUENCE);
\* auto it = root.begin(); ++it; and three times (*it).push_back("x"):
\* a map whose last child is a sequence of three items, of capacity 4. The calls that built it
\* are counted, so that one more call changes this document.
SeedLoaded ==
    With(NodeAssignKind(NewDocument.c, NewDocument.node, "MAP"), LAMBDA m :
    With(NodeInsert(m.c, m.node, <<LOWER_A>>, StringVal(<<LOWER_X>>)), LAMBDA r1 :
    With(NodeInsertKind(r1.c, r1.node, <<LOWER_B>>, "SEQUENCE"), LAMBDA r2 :
    With(Node(getSub(Elt(r2.c, 0), 1), <<>>), LAMBDA it :
    With(NodePushBack(r2.c, it, StringVal(<<LOWER_X>>)), LAMBDA r3 :
    With(NodePushBack(r3.c, it, StringVal(<<LOWER_X>>)), LAMBDA r4 :
    With(NodePushBack(r4.c, it, StringVal(<<LOWER_X>>)), LAMBDA r5 :
         [c |-> r5.c, node |-> m.node, calls |-> MaxCalls - 1])))))))

\* the documents a program starts from: Document root, Document root =
\* parse(text), and the map built through the API
Seeds == {[c |-> NewDocument.c, node |-> NewDocument.node, calls |-> 0], SeedParsed, SeedLoaded}

Init ==
    /\ \E d \in Seeds : ctx = d.c /\ root = d.node /\ node = d.node /\ calls = d.calls
    /\ err = "none"
    /\ ndebug \in BOOLEAN
    /\ aborted = FALSE
    /\ ref = <<>>
    /\ rt = NoRoundTrip
    /\ builder = NoBuilder
    /\ pair = NoPair

\* Node n = root
Copy == /\ ~aborted /\ node' = root /\ err' = "none"
        /\ UNCHANGED <<ctx, root, ndebug, aborted, ref, calls, rt, builder, pair>>
As(t) == \E conv \in BOOLEAN : Call(t, NodeAs(ctx, Handle(t), conv))
AsDefault(t) == \E conv \in BOOLEAN : Call(t, NodeAsDefault(ctx, Handle(t), conv, <<LOWER_N>>))
Assign(t) == \E v \in Vals : Call(t, NodeAssign(ctx, Handle(t), v, ndebug))
AssignKind(t) == \E k \in Kinds : Call(t, NodeAssignKind(ctx, Handle(t), k))
Size(t) == Call(t, NodeSize(ctx, Handle(t)))
Begin(t) == Call(t, NodeBegin(ctx, Handle(t)))
End(t) == Call(t, NodeEnd(ctx, Handle(t)))
HasKey(t) == \E key \in KeyArgs : Call(t, NodeHasKey(ctx, Handle(t), key))
AtKey(t) == \E key \in KeyArgs : CallNode(t, NodeAtKey(ctx, Handle(t), key))
Insert(t) == \E key \in KeyArgs, v \in Vals : Call(t, NodeInsert(ctx, Handle(t), key, v))
InsertKind(t) ==
    \E key \in KeyArgs, k \in Kinds : Call(t, NodeInsertKind(ctx, Handle(t), key, k))
Remove(t) ==
    \E key \in Keys, junk \in ArenaReads(ctx, Handle(t)) :
        Call(t, NodeRemove(ctx, Handle(t), key, ndebug, junk))
AtIndex(t) == \E idx \in 0..MaxIdx : CallNode(t, NodeAtIndex(ctx, Handle(t), idx))
PushBack(t) == \E v \in Vals : Call(t, NodePushBack(ctx, Handle(t), v))
PushBackKind(t) == \E k \in Kinds : Call(t, NodePushBackKind(ctx, Handle(t), k))
InsertAt(t) == \E idx \in 0..MaxIdx, v \in Vals : Call(t, NodeInsertAt(ctx, Handle(t), idx, v))
InsertAtKind(t) ==
    \E idx \in 0..MaxIdx, k \in Kinds : Call(t, NodeInsertAtKind(ctx, Handle(t), idx, k))
RemoveAt(t) == \E idx \in 0..MaxIdx : Call(t, NodeRemoveAt(ctx, Handle(t), idx))
PopBack(t) == Call(t, NodePopBack(ctx, Handle(t)))

Next ==
    \/ Copy
    \/ \E t \in Targets :
        \/ As(t) \/ AsDefault(t) \/ Assign(t) \/ AssignKind(t) \/ Size(t)
        \/ Begin(t) \/ End(t) \/ HasKey(t) \/ AtKey(t) \/ Insert(t) \/ InsertKind(t)
        \/ Remove(t) \/ AtIndex(t) \/ PushBack(t) \/ PushBackKind(t) \/ InsertAt(t)
        \/ InsertAtKind(t) \/ RemoveAt(t) \/ PopBack(t)

Spec == Init /\ [][Next]_vars

\* ------------------------------------------------------------------------
\* The tree and the properties of the Node API
\* ------------------------------------------------------------------------
\* the elements an element refers to
Children(c, i) ==
    LET e == Elt(c, i)
    IN IF e.type = "KEY" THEN (IF e.eltIdx = 0 THEN {} ELSE {e.eltIdx})
       ELSE IF e.type \in {"MAP", "SEQUENCE"} THEN {e.subs[k] : k \in 1..Len(e.subs)}
       ELSE {}

RECURSIVE ReachFrom(_, _, _)
ReachFrom(c, frontier, seen) ==
    IF frontier = {} THEN seen
    ELSE LET next == UNION {Children(c, i) : i \in frontier} \ (seen \cup frontier)
         IN ReachFrom(c, next, seen \cup frontier)

\* the elements of the tree of the document, from the root element
Tree(c) == ReachFrom(c, {0}, {})
TreeMaps(c) == {i \in Tree(c) : Elt(c, i).type = "MAP"}

\* the positions of map m whose child is a Key named K
KeyPositions(c, m, K) ==
    {pos \in 0..getSubQty(Elt(c, m)) - 1 :
        /\ Elt(c, getSub(Elt(c, m), pos)).type = "KEY"
        /\ Elt(c, getSub(Elt(c, m), pos)).str = K}

\* the handle is a Map node (not a pending key)
IsMapHandle(c, h) == Elt(c, h.eltIdx).type = "MAP" /\ h.nonExistingKey = <<>>

\* the handle is a pending key of a map
IsPending(c, h) == Elt(c, h.eltIdx).type = "MAP" /\ h.nonExistingKey # <<>>

StructuralKinds == {"MAP", "SEQUENCE"}

\* the names the lookups are checked with: the keys of the calls and the names
\* of the Key children of the map
NamesOf(c, m) ==
    Keys \cup {Elt(c, getSub(Elt(c, m), pos)).str :
                  pos \in {q \in 0..getSubQty(Elt(c, m)) - 1 :
                              Elt(c, getSub(Elt(c, m), q)).type = "KEY"}}

\* C3: after a successful parse and after any sequence of API mutations, for
\* every Map M and every key string K, the lookup of K in the index of M
\* returns pos if and only if the child of M at position pos is a Key element
\* whose name is K.
C3_IndexConsistent ==
    ~aborted =>
        \A m \in TreeMaps(ctx) : \A K \in NamesOf(ctx, m) :
            \A pos \in 0..getSubQty(Elt(ctx, m)) - 1 :
                (getMapChildIndex(ctx, m, K, Elt(ctx, m)) = pos)
                    <=> (pos \in KeyPositions(ctx, m, K))

\* C4: in every tree produced by parse or by any sequence of API operations,
\* the Key children of any one Map have pairwise distinct names.
C4_KeyNamesDistinct ==
    ~aborted =>
        \A m \in TreeMaps(ctx) : \A K \in NamesOf(ctx, m) :
            Cardinality(KeyPositions(ctx, m, K)) <= 1

\* C5: on a Map without key k, insert(k, MAP) and insert(k, SEQUENCE) add the
\* key: afterwards hasKey(k) is true and m[k] is an empty node of the kind;
\* insert(k, ...) of a present key, with a value or a kind, raises an Access
\* error.
C5_InsertKindAddsKey ==
    \A t \in Targets, key \in Keys, kind \in StructuralKinds :
        (~aborted /\ IsMapHandle(ctx, Handle(t))) =>
            \A r \in {NodeInsertKind(ctx, Handle(t), key, kind)} :
                IF KeyPositions(ctx, Handle(t).eltIdx, key) = {}
                THEN /\ r.err = "none"
                     /\ NodeHasKey(r.c, Handle(t), key).ret = TRUE
                     /\ \A got \in {NodeAtKey(r.c, Handle(t), key)} :
                            /\ got.err = "none"
                            /\ got.ret.nonExistingKey = <<>>
                            /\ Elt(r.c, got.ret.eltIdx).type = kind
                            /\ getSubQty(Elt(r.c, got.ret.eltIdx)) = 0
                ELSE /\ r.err = "Access"
                     /\ \A v \in Vals : NodeInsert(ctx, Handle(t), key, v).err = "Access"

\* C6: in every reachable tree every child of a Map element is a Key element
\* or a Comment element.
C6_MapChildrenAreKeysOrComments ==
    ~aborted =>
        \A m \in TreeMaps(ctx) : \A pos \in 0..getSubQty(Elt(ctx, m)) - 1 :
            Elt(ctx, getSub(Elt(ctx, m), pos)).type \in {"KEY", "COMMENT"}

\* C7: for a Map m and a non-empty key k absent from m, m[k] raises no error,
\* returns a handle that evaluates to false, and leaves the children of m, the
\* element store and the map index unchanged; for a present key m[k] evaluates
\* to true.
C7_AtKeyIsPure ==
    \A t \in Targets, key \in Keys :
        (~aborted /\ IsMapHandle(ctx, Handle(t))) =>
            \A r \in {NodeAtKey(ctx, Handle(t), key)} :
                /\ r.err = "none"
                /\ ~r.abort
                /\ r.c = ctx
                /\ NodeBool(r.c, r.ret) <=> (KeyPositions(ctx, Handle(t).eltIdx, key) # {})

\* what an assignment through the pending handle h must leave: one more child of
\* the map, last, a Key named after the pending key, found by hasKey and by
\* m[k], the other children where they were
Materialized(c, h, r) ==
    LET m == h.eltIdx
        k == h.nonExistingKey
        before == Elt(c, m).subs
        after == Elt(r.c, m).subs
    IN /\ r.err = "none" /\ ~r.abort
       /\ Len(after) = Len(before) + 1
       /\ SubSeq(after, 1, Len(before)) = before
       /\ Elt(r.c, after[Len(after)]).type = "KEY"
       /\ Elt(r.c, after[Len(after)]).str = k
       /\ \A i \in 0..Len(c.elements) - 1 : i # m => Elt(r.c, i) = Elt(c, i)
       /\ NodeHasKey(r.c, Node(m, <<>>), k).ret = TRUE
       /\ NodeSize(r.c, Node(m, <<>>)).ret = NodeSize(c, Node(m, <<>>)).ret + 1
       /\ \A got \in {NodeAtKey(r.c, Node(m, <<>>), k)} :
              /\ got.err = "none" /\ got.ret.nonExistingKey = <<>>
              /\ got.ret.eltIdx = Elt(r.c, after[Len(after)]).eltIdx

\* C8: assigning a scalar value or a MAP/SEQUENCE kind through a pending-key
\* handle for key k of map m appends exactly one new Key named k as the last
\* child of m: hasKey(k) is true, size() has grown by one, m[k] yields the
\* assigned value or an empty container of the kind, and the children that
\* existed keep their positions.
C8_PendingAssignAppendsKey ==
    \A t \in Targets :
        (/\ ~aborted
         /\ IsPending(ctx, Handle(t))
         /\ KeyPositions(ctx, Handle(t).eltIdx, Handle(t).nonExistingKey) = {}) =>
            /\ \A v \in Vals : v.conv =>
                  \A r \in {NodeAssign(ctx, Handle(t), v, ndebug)} :
                      /\ Materialized(ctx, Handle(t), r)
                      /\ \A got \in {NodeAtKey(r.c, Node(Handle(t).eltIdx, <<>>),
                                                Handle(t).nonExistingKey)} :
                             NodeAs(r.c, got.ret, TRUE).ret = v.str
            /\ \A kind \in StructuralKinds :
                  \A r \in {NodeAssignKind(ctx, Handle(t), kind)} :
                      /\ Materialized(ctx, Handle(t), r)
                      /\ \A got \in {NodeAtKey(r.c, Node(Handle(t).eltIdx, <<>>),
                                                Handle(t).nonExistingKey)} :
                             /\ Elt(r.c, got.ret.eltIdx).type = kind
                             /\ NodeSize(r.c, got.ret).ret = 0

\* the program holds the pending key of a map that has a child, and the
\* assignment through it returns with one child more in the map
C8_Witness ==
    /\ ~aborted
    /\ IsPending(ctx, node)
    /\ KeyPositions(ctx, node.eltIdx, node.nonExistingKey) = {}
    /\ getSubQty(Elt(ctx, node.eltIdx)) >= 1
    /\ \E r \in {NodeAssign(ctx, node, StringVal(<<LOWER_X>>), ndebug)} :
          /\ r.err = "none"
          /\ getSubQty(Elt(r.c, node.eltIdx)) = getSubQty(Elt(ctx, node.eltIdx)) + 1

\* C9: on a pending-key handle, a read with a default returns the default, and
\* any other read on the handle (as<T>() without default, operator[], hasKey,
\* size, begin/end) fails with an Access error.
C9_PendingReadsFail ==
    \A t \in Targets :
        LET h == Handle(t)
        IN (~aborted /\ IsPending(ctx, h)) =>
              /\ NodeAsDefault(ctx, h, TRUE, <<LOWER_N>>).err = "none"
              /\ NodeAsDefault(ctx, h, TRUE, <<LOWER_N>>).ret = <<LOWER_N>>
              /\ NodeAs(ctx, h, TRUE).err = "Access"
              /\ \A key \in Keys : NodeAtKey(ctx, h, key).err = "Access"
              /\ \A key \in Keys : NodeHasKey(ctx, h, key).err = "Access"
              /\ NodeSize(ctx, h).err = "Access"
              /\ NodeBegin(ctx, h).err = "Access"
              /\ NodeEnd(ctx, h).err = "Access"

\* the outcome of a call without the returned value
Frame(r) == [err |-> r.err, abort |-> r.abort, c |-> r.c, node |-> r.node]

\* the outcomes of every call of the Node API on the handle h, over the inputs
Outcomes(c, h, nd) ==
    {Frame(NodeAs(c, h, conv)) : conv \in BOOLEAN}
    \cup {Frame(NodeAsDefault(c, h, conv, <<LOWER_N>>)) : conv \in BOOLEAN}
    \cup {Frame(NodeAssign(c, h, v, nd)) : v \in Vals}
    \cup {Frame(NodeAssignKind(c, h, k)) : k \in Kinds}
    \cup {Frame(NodeSize(c, h)), Frame(NodeBegin(c, h)), Frame(NodeEnd(c, h)),
          Frame(NodePopBack(c, h))}
    \cup {Frame(NodeHasKey(c, h, key)) : key \in KeyArgs}
    \cup {Frame(NodeAtKey(c, h, key)) : key \in KeyArgs}
    \cup {Frame(NodeInsert(c, h, key, v)) : key \in KeyArgs, v \in Vals}
    \cup {Frame(NodeInsertKind(c, h, key, k)) : key \in KeyArgs, k \in Kinds}
    \cup {Frame(NodeRemove(c, h, key, nd, junk)) : key \in Keys, junk \in ArenaReads(c, h)}
    \cup {Frame(NodeAtIndex(c, h, idx)) : idx \in 0..MaxIdx}
    \cup {Frame(NodePushBack(c, h, v)) : v \in Vals}
    \cup {Frame(NodePushBackKind(c, h, k)) : k \in Kinds}
    \cup {Frame(NodeInsertAt(c, h, idx, v)) : idx \in 0..MaxIdx, v \in Vals}
    \cup {Frame(NodeInsertAtKind(c, h, idx, k)) : idx \in 0..MaxIdx, k \in Kinds}
    \cup {Frame(NodeRemoveAt(c, h, idx)) : idx \in 0..MaxIdx}

\* C10: whenever a Node API call raises an Access error (wrong node kind,
\* out-of-bounds index, empty key, duplicate key, non-structural kind, codec
\* failure), the tree, the element store and the map index are as they were
\* before the call, and so is the handle: the calls that follow behave as if the
\* failed call had not been made.
C10_AccessErrorLeavesState ==
    ~aborted =>
        \A t \in Targets : \A r \in Outcomes(ctx, Handle(t), ndebug) :
            r.err = "Access" => (r.c = ctx /\ r.node = Handle(t) /\ ~r.abort)

\* a call on a document whose map has children threw an Access error
C10_Witness ==
    /\ ~aborted /\ err = "Access"
    /\ \E m \in TreeMaps(ctx) : getSubQty(Elt(ctx, m)) >= 1

\* ------------------------------------------------------------------------
\* The root map against a reference dictionary
\* ------------------------------------------------------------------------
MaxChurn == 13
DictVals == {StringVal(<<LOWER_X>>), StringVal(<<LOWER_Y>>)}

\* Document root; root = MAP
NewMap ==
    With(NodeAssignKind(NewDocument.c, NewDocument.node, "MAP"), LAMBDA r :
         [c |-> r.c, node |-> r.node, ref |-> {}])

\* root.insert(k, "x") for each of the names of keys, in order
RECURSIVE InsertAll(_, _)
InsertAll(d, keys) ==
    IF keys = <<>> THEN d
    ELSE With(NodeInsert(d.c, d.node, Head(keys), StringVal(<<LOWER_X>>)), LAMBDA r :
              IF r.err # "none" THEN d
              ELSE InsertAll([c |-> r.c, node |-> r.node,
                              ref |-> d.ref \cup {<<Head(keys), <<LOWER_X>>>>}], Tail(keys)))

\* n times: root.insert("c", "x"); root.remove("c")
RECURSIVE Churn(_, _)
Churn(d, n) ==
    IF n = 0 THEN d
    ELSE With(NodeInsert(d.c, d.node, <<LOWER_C>>, StringVal(<<LOWER_X>>)), LAMBDA r1 :
         With(NodeRemove(r1.c, r1.node, <<LOWER_C>>, TRUE, <<>>), LAMBDA r2 :
              IF r1.err # "none" \/ r2.ret # TRUE THEN d
              ELSE Churn([c |-> r2.c, node |-> r2.node, ref |-> d.ref], n - 1)))

DictSeeds == {NewMap, InsertAll(NewMap, CrowdedKeys), Churn(NewMap, MaxChurn)}

RefHas(k) == \E p \in ref : p[1] = k
RefPut(k, str) == {p \in ref : p[1] # k} \cup {<<k, str>>}

InitDict ==
    /\ \E d \in DictSeeds : ctx = d.c /\ root = d.node /\ node = d.node /\ ref = d.ref
    /\ err = "none"
    /\ ndebug \in BOOLEAN
    /\ aborted = FALSE
    /\ calls = 0
    /\ rt = NoRoundTrip
    /\ builder = NoBuilder
    /\ pair = NoPair

\* one statement of the program on the root map, with what the reference
\* dictionary becomes when the statement returns
DictCall(r, newRef) ==
    /\ ~aborted
    /\ calls < MaxCalls
    /\ calls' = calls + 1
    /\ ctx' = r.c
    /\ err' = r.err
    /\ aborted' = r.abort
    /\ ref' = IF r.err = "none" /\ ~r.abort THEN newRef ELSE ref
    /\ UNCHANGED <<root, node, ndebug, rt, builder, pair>>

\* root[k] = v
DictAssign ==
    \E k \in DictKeys, v \in DictVals :
        \E r1 \in {NodeAtKey(ctx, root, k)} :
            DictCall(NodeAssign(r1.c, r1.ret, v, ndebug), RefPut(k, v.str))

\* root.insert(k, v)
DictInsert ==
    \E k \in DictKeys, v \in DictVals : DictCall(NodeInsert(ctx, root, k, v), RefPut(k, v.str))

\* root.remove(k)
DictRemove ==
    \E k \in DictKeys, junk \in ArenaReads(ctx, root) :
        DictCall(NodeRemove(ctx, root, k, ndebug, junk), {p \in ref : p[1] # k})

NextDict == DictAssign \/ DictInsert \/ DictRemove

SpecDict == InitDict /\ [][NextDict]_vars

\* C2: after any sequence of m[k] = v, insert(k, v) and remove(k) with
\* non-empty keys on a Map built through the API, hasKey(k) is true exactly for
\* the keys inserted and not removed since, and m[k].as<string>() returns the
\* value most recently stored under k.
C2_MapIsDictionary ==
    ~aborted =>
        \A k \in HashedKeys :
            /\ NodeHasKey(ctx, root, k).ret = RefHas(k)
            /\ RefHas(k) => <<k, NodeAs(ctx, NodeAtKey(ctx, root, k).ret, TRUE).ret>> \in ref
            /\ Cardinality(ref) = NodeSize(ctx, root).ret

\* after MaxCalls statements the dictionary holds two keys or more, one of
\* them with the value "y", and the index holds a tombstone
C2_Witness ==
    /\ ~aborted
    /\ calls = MaxCalls
    /\ Cardinality(ref) >= 2
    /\ \E p \in ref : p[2] = <<LOWER_Y>>
    /\ \E i \in 1..Len(ctx.entries) : ctx.entries[i].hash = WFromNat(Tombstone, 4)
    /\ \A p \in ref : NodeHasKey(ctx, root, p[1]).ret = TRUE

\* ------------------------------------------------------------------------
\* The round trip of a text: parse, emit, parse again, emit again
\* ------------------------------------------------------------------------
MaxTextLen == 3
Alphabet == {LOWER_A, COLON, SP, NL, DASH, HASH}
\* the text "a: '-'": a key whose value is a quoted dash
QuotedDash == <<LOWER_A, COLON, SP, SQ, DASH, SQ>>

\* the texts parsed: every text of the alphabet up to MaxTextLen bytes, and
\* the quoted dash
Texts == UNION {[1..n -> Alphabet] : n \in 0..MaxTextLen} \cup {QuotedDash}

\* the byte found before the storage of an empty arena: a line feed or not
Junks == {NUL, NL}

InitRT ==
    /\ \E text \in Texts : rt = RoundTrip("text", text)
    /\ ctx = NewDocument.c /\ root = NewDocument.node /\ node = NewDocument.node
    /\ err = "none"
    /\ ndebug \in BOOLEAN
    /\ aborted = FALSE
    /\ ref = <<>>
    /\ calls = 0
    /\ builder = NoBuilder
    /\ pair = NoPair

\* the document takes the place of the one held, or the error is kept
Parsed(r, stage, failed) ==
    /\ ctx' = IF r.err = "none" THEN r.c ELSE ctx
    /\ root' = IF r.err = "none" THEN r.node ELSE root
    /\ node' = IF r.err = "none" THEN r.node ELSE node
    /\ err' = r.err
    /\ aborted' \in ParseStops(r)
    /\ rt' = [rt EXCEPT !.stage = IF r.err = "none" THEN stage ELSE failed]
    /\ UNCHANGED <<ndebug, ref, calls, builder, pair>>

\* Document root = parse(text, size)
Parse1 ==
    /\ rt.stage = "text"
    /\ \E junk \in Junks : Parsed(parse(Memory(rt.text, <<NUL>>, junk)), "parsed", "rejected")

\* Y1 = root.asYaml(); P1 = root.asPyStruct()
Emit1 ==
    /\ rt.stage = "parsed"
    /\ \E y \in {dumpAsYaml(ctx)} :
          /\ aborted' = y.abort
          /\ rt' = IF y.abort THEN [rt EXCEPT !.stage = "stopped"]
                   ELSE [rt EXCEPT !.stage = "emitted", !.yaml1 = y.str,
                                   !.py1 = dumpAsPyStruct(ctx, FALSE)]
    /\ UNCHANGED <<ctx, root, node, err, ndebug, ref, calls, builder, pair>>

\* Document root = parse(Y1.c_str())
Parse2 ==
    /\ rt.stage = "emitted"
    /\ \E junk \in Junks : Parsed(parseCString(rt.yaml1, junk), "reparsed", "refused")

\* Y2 = root.asYaml(); P2 = root.asPyStruct()
Emit2 ==
    /\ rt.stage = "reparsed"
    /\ \E y \in {dumpAsYaml(ctx)} :
          /\ aborted' = y.abort
          /\ rt' = IF y.abort THEN [rt EXCEPT !.stage = "stopped"]
                   ELSE [rt EXCEPT !.stage = "done", !.yaml2 = y.str,
                                   !.py2 = dumpAsPyStruct(ctx, FALSE)]
    /\ UNCHANGED <<ctx, root, node, err, ndebug, ref, calls, builder, pair>>

NextRT == Parse1 \/ Emit1 \/ Parse2 \/ Emit2

SpecRT == InitRT /\ [][NextRT]_vars

\* C1: for every input I that parses successfully, with T1 = parse(I),
\* Y1 = asYaml(T1), T2 = parse(Y1), Y2 = asYaml(T2): parse(Y1) succeeds, Y2
\* equals Y1 byte for byte, and asPyStruct(T1) equals asPyStruct(T2).
C1_RoundTrip ==
    /\ rt.stage # "refused"
    /\ rt.stage = "done" => (rt.yaml2 = rt.yaml1 /\ rt.py2 = rt.py1)

\* ---------------------------------------------------------------------------
\* SpecParse: the loop of parse, one token at a time
\* ---------------------------------------------------------------------------

MaxParseLen == 4
ParseAlphabet == {LOWER_A, COLON, SP, NL, DASH, TAB, SQ}

\* "a:", a line feed, " a:", a line feed, "a:": the key a of the root map, the
\* key a of the map that is its value, and the key a of the root map again
NestedThenDuplicate == <<LOWER_A, COLON, NL, SP, LOWER_A, COLON, NL, LOWER_A, COLON>>
\* "a: ''", a line feed, "  b:": a key, its quoted value, and a key two columns in
QuotedThenDeeperKey == <<LOWER_A, COLON, SP, SQ, SQ, NL, SP, SP, LOWER_B, COLON>>
\* "- ''", a line feed, "   a": an item, its quoted value, and a value three columns in
QuotedThenDeeperValue == <<DASH, SP, SQ, SQ, NL, SP, SP, SP, LOWER_A>>
\* "a:", a line feed, "  b:", a line feed, " a:": a key under the key a, then a
\* key between the columns of the two
KeyBetweenColumns ==
    <<LOWER_A, COLON, NL, SP, SP, LOWER_B, COLON, NL, SP, LOWER_A, COLON>>
\* "- ''", a line feed, " - a": an item, its quoted value, and an item one column in
CaretDeeper == <<DASH, SP, SQ, SQ, NL, SP, DASH, SP, LOWER_A>>

\* "- '", a line feed, a tab, "'": an item whose quoted value goes on, after a
\* tab, on the next line
QuotedTabInItem == <<DASH, SP, SQ, NL, TAB, SQ>>

\* LongKeyLen times "a", ":", a line feed, and the same key again: a key of
\* the root map met twice, whose name does not fit the message of the error
LongKeyLen == 500
LongKeyTwice ==
    [i \in 1..LongKeyLen |-> LOWER_A] \o <<COLON, NL>>
        \o [i \in 1..LongKeyLen |-> LOWER_A] \o <<COLON>>

\* a double quote, a backslash, two line feeds, "b", a double quote: a quoted
\* value whose first line ends on an escaped line break, before an empty line
EscapedBreakThenEmptyLine == <<DQ, BSL, NL, NL, LOWER_B, DQ>>

\* a map, a line feed, and a value after up to MaxValueIndent spaces: under
\* "a: a", the key at column 0 with its value, under " a: a", the key at
\* column 1, and under "a:", line feed, "  b: a", the map that is the value of a
MaxValueIndent == 3
MapTexts ==
    {<<LOWER_A, COLON, SP, LOWER_A>>, <<SP, LOWER_A, COLON, SP, LOWER_A>>,
     <<LOWER_A, COLON, NL, SP, SP, LOWER_B, COLON, SP, LOWER_A>>}
ValueAfterMapTexts ==
    {m \o <<NL>> \o [i \in 1..k |-> SP] \o <<LOWER_A>> : m \in MapTexts, k \in 0..MaxValueIndent}

\* the block scalars: "|" or ">", up to MaxHeaderLen chomp indicators and indent
\* digits, a line feed, and the line " a"
MaxHeaderLen == 3
HeaderAlphabet == {PLUS, DASH, DIGIT1, DIGIT9}
HeaderTexts ==
    {<<mark>> \o h \o <<NL, SP, LOWER_A>> :
        mark \in {PIPE, GT}, h \in UNION {[1..n -> HeaderAlphabet] : n \in 0..MaxHeaderLen}}

ParseTexts ==
    UNION {[1..n -> ParseAlphabet] : n \in 0..MaxParseLen}
    \cup {NestedThenDuplicate, QuotedThenDeeperKey, QuotedThenDeeperValue,
          KeyBetweenColumns, CaretDeeper, QuotedTabInItem, EscapedBreakThenEmptyLine,
          LongKeyTwice}
    \cup HeaderTexts \cup ValueAfterMapTexts

\* no token was read yet
NoToken == [err |-> "none", type |-> "none"]

\* a parse in progress: the memory it reads, the state of the loop before and
\* after the last token, and that token
Builder(mem, before, token, p) ==
    [stage |-> "parse", mem |-> mem, before |-> before, token |-> token, p |-> p]

InitParse ==
    /\ \E text \in ParseTexts, junk \in Junks :
           builder = Builder(Memory(text, <<NUL>>, junk), ParseStart, NoToken, ParseStart)
    /\ ctx = NewDocument.c /\ root = NewDocument.node /\ node = NewDocument.node
    /\ err = "none"
    /\ ndebug \in BOOLEAN
    /\ aborted = FALSE
    /\ ref = <<>>
    /\ calls = 0
    /\ rt = NoRoundTrip
    /\ pair = NoPair

\* the loop of parse has ended: end of input, empty stack, or an error thrown
ParseEnded(p) == p.isEndOfInput \/ p.stack = <<>> \/ p.err # "none"

\* one turn of the loop: getToken, then the case of the token; when the
\* process stops in it, parse neither returns nor throws
ParseTurn ==
    /\ builder.stage = "parse"
    /\ ~ParseEnded(builder.p)
    /\ \E token \in {getToken(builder.mem, builder.p.mlStringParentIndent, builder.p.sh,
                              builder.p.indexColNbr, builder.p.lineNbr, builder.p.startIdx)} :
       \E p \in {ParseToken(builder.mem, builder.p, token)} :
       \E stop \in ParseStops(p) :
           /\ builder' = [Builder(builder.mem, builder.p, token, p)
                              EXCEPT !.stage = IF stop THEN "stopped" ELSE "parse"]
           /\ aborted' = stop
    /\ UNCHANGED <<ctx, root, node, err, ndebug, ref, calls, rt, pair>>

\* the end of parse: the document is initialised from the context, or the
\* error is thrown
ParseReturn ==
    /\ builder.stage = "parse"
    /\ ParseEnded(builder.p)
    /\ builder' = [builder EXCEPT !.stage = "parsed"]
    /\ IF builder.p.err = "none"
       THEN ctx' = builder.p.c /\ root' = initFromContext(builder.p.c)
            /\ node' = initFromContext(builder.p.c) /\ UNCHANGED err
       ELSE err' = builder.p.err /\ UNCHANGED <<ctx, root, node>>
    /\ UNCHANGED <<ndebug, aborted, ref, calls, rt, pair>>

NextParse == ParseTurn \/ ParseReturn

SpecParse == InitParse /\ [][NextParse]_vars

\* the builder at the "Add key" step of a Key token: the stack is popped to the
\* key's column and the parent is the map the key is added to
KeyTarget(p, token) ==
    With(PopForKey([p EXCEPT !.mlStringParentIndent = token.startColNbr], token.startColNbr),
         LAMBDA q : IF q.stack = <<>> THEN Fail(q, KeyParentError)
                    ELSE IF q.parent.childIndent >= 0 /\ token.startColNbr < q.parent.childIndent
                    THEN Fail(q, KeyAlignError)
                    ELSE KeyMap(IF q.parent.childIndent < 0
                                THEN SetChildIndent(q, token.startColNbr) ELSE q))

\* the maps of the context, other than m, that hold a Key named K
OtherMapsWithKey(c, m, K) ==
    {o \in 0..Len(c.elements) - 1 :
        o # m /\ Elt(c, o).type = "MAP" /\ KeyPositions(c, o, K) # {}}

\* the last token is a Key that reached the "Add key" step, whether the turn
\* ended or the process stopped in it
KeyReachedAdd ==
    /\ builder.stage \in {"parse", "stopped"}
    /\ builder.token.err = "none"
    /\ builder.token.type = "Key"
    /\ KeyTarget(builder.before, builder.token).err = "none"

\* C11: a Key token raises the "duplicated key" Parse error if and only if the
\* map it is being added to already holds a Key of the same name, whatever the
\* other maps of the document hold: the turn of a Key that reached the "Add
\* key" step ends without stopping the process, on that error when the map
\* holds the name and on no error when it does not
C11_DuplicatedKeyIffPresent ==
    KeyReachedAdd =>
        \A q \in {KeyTarget(builder.before, builder.token)} :
            /\ ~aborted
            /\ builder.p.err \in {"none", DuplicatedKeyError}
            /\ builder.p.err = DuplicatedKeyError
                   <=> KeyPositions(q.c, q.parent.eltIdx, builder.token.str) # {}

\* ---------------------------------------------------------------------------
\* SpecSeq: a sequence under push_back, insert, remove and pop_back, next to a
\* reference list
\* ---------------------------------------------------------------------------

MaxSeqCalls == 4
MaxSeqIdx == 3
SeqVals == {StringVal(<<LOWER_X>>), StringVal(<<LOWER_Y>>), NoConverter}
SeqKinds == {"MAP", "SEQUENCE", "VALUE"}

\* an item of the reference list: a string value, or an empty container
ValueItem(v) == <<"VALUE", v.str>>
KindItem(kind) == <<kind, <<>>>>

\* Document root; root = SEQUENCE
NewSequence ==
    With(NodeAssignKind(NewDocument.c, NewDocument.node, "SEQUENCE"), LAMBDA r :
         [c |-> r.c, node |-> r.node, ref |-> <<>>])

\* parse("- x\n- y")
ParsedSequence ==
    With(parse(Memory(<<DASH, SP, LOWER_X, NL, DASH, SP, LOWER_Y>>, <<NUL>>, NUL)), LAMBDA d :
         [c |-> d.c, node |-> d.node,
          ref |-> <<ValueItem(StringVal(<<LOWER_X>>)), ValueItem(StringVal(<<LOWER_Y>>))>>])

SeqSeeds == {NewSequence, ParsedSequence}

InitSeq ==
    /\ \E d \in SeqSeeds : ctx = d.c /\ root = d.node /\ node = d.node /\ ref = d.ref
    /\ err = "none"
    /\ ndebug \in BOOLEAN
    /\ aborted = FALSE
    /\ calls = 0
    /\ rt = NoRoundTrip
    /\ builder = NoBuilder
    /\ pair = NoPair

\* the list with x placed before its item of position idx
ListInsert(list, idx, x) ==
    SubSeq(list, 1, idx) \o <<x>> \o SubSeq(list, idx + 1, Len(list))

\* the list without its item of position idx
ListRemove(list, idx) == SubSeq(list, 1, idx) \o SubSeq(list, idx + 2, Len(list))

\* one statement of the program on the root sequence, with what the reference
\* list becomes when the statement returns
SeqCall(r, newRef) ==
    /\ calls < MaxSeqCalls
    /\ calls' = calls + 1
    /\ ctx' = r.c
    /\ err' = r.err
    /\ ref' = IF r.err = "none" THEN newRef ELSE ref
    /\ UNCHANGED <<root, node, ndebug, aborted, rt, builder, pair>>

\* root.push_back(v)
SeqPushBack ==
    \E v \in SeqVals : SeqCall(NodePushBack(ctx, root, v), Append(ref, ValueItem(v)))

\* root.push_back(kind)
SeqPushBackKind ==
    \E kind \in SeqKinds :
        SeqCall(NodePushBackKind(ctx, root, kind), Append(ref, KindItem(kind)))

\* root.insert(idx, v)
SeqInsertAt ==
    \E idx \in 0..MaxSeqIdx, v \in SeqVals :
        SeqCall(NodeInsertAt(ctx, root, idx, v), ListInsert(ref, idx, ValueItem(v)))

\* root.insert(idx, kind)
SeqInsertAtKind ==
    \E idx \in 0..MaxSeqIdx, kind \in SeqKinds :
        SeqCall(NodeInsertAtKind(ctx, root, idx, kind), ListInsert(ref, idx, KindItem(kind)))

\* root.remove(idx)
SeqRemoveAt ==
    \E idx \in 0..MaxSeqIdx : SeqCall(NodeRemoveAt(ctx, root, idx), ListRemove(ref, idx))

\* root.pop_back()
SeqPopBack == SeqCall(NodePopBack(ctx, root), ListRemove(ref, Len(ref) - 1))

NextSeq ==
    SeqPushBack \/ SeqPushBackKind \/ SeqInsertAt \/ SeqInsertAtKind \/ SeqRemoveAt
    \/ SeqPopBack

SpecSeq == InitSeq /\ [][NextSeq]_vars

\* the child of position idx as the program reads it: root[idx], and its
\* string when it is a value
ItemAt(c, seq, idx) ==
    With(NodeAtIndex(c, seq, idx), LAMBDA r :
         IF r.err # "none" THEN <<"Access", <<>>>>
         ELSE IF Elt(c, r.ret.eltIdx).type = "VALUE"
         THEN <<"VALUE", NodeAs(c, r.ret, TRUE).ret>>
         ELSE <<Elt(c, r.ret.eltIdx).type, <<>>>>)

\* C12: the children of the sequence, in order, are the items of the reference
\* list; insert past the size, remove and operator[] at or past the size, and
\* pop_back on the empty sequence raise an Access error
C12_SequenceIsList ==
    /\ NodeSize(ctx, root).ret = Len(ref)
    /\ \A idx \in 0..Len(ref) - 1 : ItemAt(ctx, root, idx) = ref[idx + 1]
    /\ \A idx \in 0..MaxSeqIdx + 1 :
           /\ idx > Len(ref) =>
                  /\ NodeInsertAt(ctx, root, idx, StringVal(<<LOWER_X>>)).err = "Access"
                  /\ NodeInsertAtKind(ctx, root, idx, "MAP").err = "Access"
           /\ idx >= Len(ref) =>
                  /\ NodeRemoveAt(ctx, root, idx).err = "Access"
                  /\ NodeAtIndex(ctx, root, idx).err = "Access"
    /\ Len(ref) = 0 => NodePopBack(ctx, root).err = "Access"

\* the sequence holds y, a map and x in this order after an insert in the
\* middle, and the last call was refused
C12_Witness ==
    /\ calls = MaxSeqCalls
    /\ err = "Access"
    /\ Len(ref) = 3
    /\ ItemAt(ctx, root, 0) = ValueItem(StringVal(<<LOWER_Y>>))
    /\ ItemAt(ctx, root, 1) = KindItem("MAP")
    /\ ItemAt(ctx, root, 2) = ValueItem(StringVal(<<LOWER_X>>))

\* C13: on the root map of SpecDict, remove(k) of a name the map does not hold
\* returns false, fails no assertion, and leaves the children and the index as
\* they are; remove(k) of a name it holds returns true and hasKey(k) is false
\* afterwards
C13_RemoveAbsentReturnsFalse ==
    ~aborted =>
        \A k \in DictKeys :
            \A r \in {NodeRemove(ctx, root, k, ndebug, junk) : junk \in ArenaReads(ctx, root)} :
                IF KeyPositions(ctx, root.eltIdx, k) = {}
                THEN ~r.abort /\ r.err = "none" /\ r.ret = FALSE /\ r.c = ctx
                ELSE ~r.abort /\ r.err = "none" /\ r.ret = TRUE
                     /\ NodeHasKey(r.c, root, k).ret = FALSE

\* C14: in every document, parsed or built through the API, the element of
\* index 0 is a Key with an empty name, and its child, if it has one, is the
\* element the Document handle refers to
C14_ElementZeroIsRootKey ==
    ~aborted =>
        /\ Elt(ctx, 0).type = "KEY"
        /\ Elt(ctx, 0).str = <<>>
        /\ Elt(ctx, 0).eltIdx # 0 => initFromContext(ctx).eltIdx = Elt(ctx, 0).eltIdx

\* the records of the store other than the container m are what they were, at
\* the index they had
OthersKept(c, r, m) ==
    /\ Len(r.c.elements) >= Len(c.elements)
    /\ \A i \in 0..Len(c.elements) - 1 : i # m => Elt(r.c, i) = Elt(c, i)

SubsSet(c, m) == {Elt(c, m).subs[k] : k \in 1..Len(Elt(c, m).subs)}

\* the container m has one child more, and that child is a new index
AddedFresh(c, r, m) ==
    /\ Len(Elt(r.c, m).subs) = Len(Elt(c, m).subs) + 1
    /\ SubsSet(c, m) \subseteq SubsSet(r.c, m)
    /\ \A x \in SubsSet(r.c, m) \ SubsSet(c, m) : x >= Len(c.elements)

\* the container m has one child less, the others are its children still, and
\* the store has the size it had
RemovedOne(c, r, m) ==
    /\ Len(r.c.elements) = Len(c.elements)
    /\ Len(Elt(r.c, m).subs) = Len(Elt(c, m).subs) - 1
    /\ SubsSet(r.c, m) \subseteq SubsSet(c, m)
    /\ Cardinality(SubsSet(c, m) \ SubsSet(r.c, m)) = 1

\* the results of the calls that add a child to the container of the handle
Additions(c, h, nd) ==
    {Frame(NodeInsert(c, h, key, v)) : key \in KeyArgs, v \in Vals}
    \cup {Frame(NodeInsertKind(c, h, key, k)) : key \in KeyArgs, k \in Kinds}
    \cup {Frame(NodePushBack(c, h, v)) : v \in Vals}
    \cup {Frame(NodePushBackKind(c, h, k)) : k \in Kinds}
    \cup {Frame(NodeInsertAt(c, h, idx, v)) : idx \in 0..MaxIdx, v \in Vals}
    \cup {Frame(NodeInsertAtKind(c, h, idx, k)) : idx \in 0..MaxIdx, k \in Kinds}
    \cup (IF IsPending(c, h)
          THEN {Frame(NodeAssign(c, h, v, nd)) : v \in Vals}
               \cup {Frame(NodeAssignKind(c, h, k)) : k \in Kinds}
          ELSE {})

\* the results of the calls that remove a child: those of remove(key) that
\* returned true, of remove(idx) and of pop_back
Removals(c, h, nd) ==
    UNION {{Frame(NodeRemove(c, h, key, nd, junk)) :
                key \in {k \in Keys : \A x \in {NodeRemove(c, h, k, nd, junk)} :
                                        x.err = "none" /\ ~x.abort /\ x.ret = TRUE}} :
           junk \in ArenaReads(c, h)}
    \cup {Frame(NodeRemoveAt(c, h, idx)) : idx \in 0..MaxIdx}
    \cup {Frame(NodePopBack(c, h))}

\* a call that adds a child gives it a new index, a call that removes one keeps
\* the size of the store, and both leave every record other than the container
\* as it was and where it was
AddAndRemoveKeepOthers ==
    ~aborted =>
        \A t \in Targets :
            /\ \A r \in Additions(ctx, Handle(t), ndebug) :
                   (r.err = "none" /\ ~r.abort) =>
                       /\ OthersKept(ctx, r, Handle(t).eltIdx)
                       /\ AddedFresh(ctx, r, Handle(t).eltIdx)
            /\ \A r \in Removals(ctx, Handle(t), ndebug) :
                   (r.err = "none" /\ ~r.abort) =>
                       /\ OthersKept(ctx, r, Handle(t).eltIdx)
                       /\ RemovedOne(ctx, r, Handle(t).eltIdx)

\* C15: no step shrinks the store, and the calls that add or remove a child
\* change the container only: every other record keeps its index and its
\* content, so that the handle of a key's value refers to that value still
C15_StoreKeepsIndices ==
    /\ []AddAndRemoveKeepOthers
    /\ [][Len(ctx'.elements) >= Len(ctx.elements)]_vars

\* a key was removed from a map that holds another key still: the store keeps
\* the record of the removed key, which no container refers to
C15_Witness ==
    /\ ~aborted
    /\ \E m \in TreeMaps(ctx) : KeyPositions(ctx, m, <<LOWER_B>>) # {}
    /\ \E i \in 0..Len(ctx.elements) - 1 :
           /\ i \notin Tree(ctx)
           /\ Elt(ctx, i).type = "KEY"
           /\ Elt(ctx, i).str = <<LOWER_A>>

\* the builder once the stack is popped for the token: its parent is the
\* container the token's element goes under
TokenParent(p, token) ==
    IF token.type = "Key"
    THEN PopForKey([p EXCEPT !.mlStringParentIndent = token.startColNbr], token.startColNbr)
    ELSE IF token.type = "Caret"
    THEN PopForCaret([p EXCEPT !.mlStringParentIndent = token.startColNbr], token.startColNbr)
    ELSE p

\* the last token is a Key, a Caret or a StringValue whose column is not the
\* child indent that its parent has already
TokenMisaligned ==
    /\ builder.stage = "parse"
    /\ builder.token.err = "none"
    /\ builder.token.type \in {"Key", "Caret", "StringValue"}
    /\ \A q \in {TokenParent(builder.before, builder.token)} :
           /\ q.stack # <<>>
           /\ q.parent.childIndent >= 0
           /\ builder.token.startColNbr # q.parent.childIndent

\* C16: a Key, Caret or StringValue token whose column differs from the child
\* indent already fixed for its parent makes parse fail
C16_MisalignedChildFails == TokenMisaligned => builder.p.err # "none"

\* the byte of position i (from 1) is a tab with nothing but spaces between
\* the start of its line and itself
TabLeadsLine(text, i) ==
    /\ text[i] = TAB
    /\ \E start \in 1..i :
           /\ start = 1 \/ text[start - 1] = NL
           /\ \A j \in start..i - 1 : text[j] = SP

HasLeadingTab(text) == \E i \in 1..Len(text) : TabLeadsLine(text, i)

\* C18: a text with a tab in the leading indentation of one of its lines is
\* refused by parse, and a text whose tabs all come after the first byte that
\* is not a space of their line is never refused for its tabulations
C18_TabOnlyRefusedInIndentation ==
    builder.stage = "parsed" =>
        IF HasLeadingTab(builder.mem.text)
        THEN builder.p.err # "none"
        ELSE builder.p.err # TabError

\* ---------------------------------------------------------------------------
\* SpecPair: two texts parsed and emitted side by side. The two are either the
\* same buffer followed in memory by different bytes, or a text and the text
\* with one comment more
\* ---------------------------------------------------------------------------

MaxBufferLen == 3
BufferTexts == UNION {[1..n -> ParseAlphabet] : n \in 0..MaxBufferLen}

\* the byte that follows the buffer in memory
FollowingBytes == {NUL, TAB, SP, SQ, LOWER_A}

\* "a: 1"; "a: 1", "b: 2" on two lines; "- a", "- b" on two lines; "a:" and
\* "  b: 1" on two lines
OneKey == <<LOWER_A, COLON, SP, DIGIT1>>
TwoKeys == <<LOWER_A, COLON, SP, DIGIT1, NL, LOWER_B, COLON, SP, DIGIT1, NL>>
TwoItems == <<DASH, SP, LOWER_A, NL, DASH, SP, LOWER_B, NL>>
NestedKey == <<LOWER_A, COLON, NL, SP, SP, LOWER_B, COLON, SP, DIGIT1, NL>>
CommentBases == {OneKey, TwoKeys, TwoItems, NestedKey}

\* " #c" after the last byte of a line, and the line "#c"
TrailingComment == <<SP, HASH, LOWER_C>>
CommentLine == <<HASH, LOWER_C, NL>>

\* the text with the piece put after its i first bytes
Spliced(text, i, piece) == SubSeq(text, 1, i) \o piece \o SubSeq(text, i + 1, Len(text))

\* the text with one comment more: at the end of one of its lines, or as a
\* line of its own before one of its lines or after the last one
Commented(text) ==
    {Spliced(text, i, TrailingComment) :
         i \in {j \in 1..Len(text) : text[j] # NL /\ (j = Len(text) \/ text[j + 1] = NL)}}
    \cup {Spliced(text, i, CommentLine) :
              i \in {j \in 0..Len(text) : j = 0 \/ text[j] = NL}}

\* the two memories, what parse made of each, and the structural output of each
Pair(kind, left, right) ==
    [stage |-> "texts", kind |-> kind, left |-> left, right |-> right,
     l |-> [err |-> "none"], r |-> [err |-> "none"],
     lpy |-> <<>>, rpy |-> <<>>, lpyIndent |-> <<>>, rpyIndent |-> <<>>]

BufferPairs ==
    {Pair("buffer", Memory(text, <<NUL>>, junk), Memory(text, <<b>>, junk)) :
         text \in BufferTexts, b \in FollowingBytes, junk \in Junks}

CommentPairs ==
    UNION {{Pair("comment", Memory(text, <<NUL>>, NUL), Memory(base, <<NUL>>, NUL)) :
                text \in Commented(base)} : base \in CommentBases}

InitPair ==
    /\ pair \in BufferPairs \cup CommentPairs
    /\ ctx = NewDocument.c /\ root = NewDocument.node /\ node = NewDocument.node
    /\ err = "none"
    /\ ndebug = FALSE
    /\ aborted = FALSE
    /\ ref = <<>>
    /\ calls = 0
    /\ rt = NoRoundTrip
    /\ builder = NoBuilder

\* what parse returns: the error, or the context of the document
Returned(d) == IF d.err = "none" THEN [err |-> "none", c |-> d.c] ELSE [err |-> d.err]

\* parse(text, textSize) on each of the two memories; the process may stop in
\* either
PairParse ==
    /\ pair.stage = "texts"
    /\ \E l \in {parse(pair.left)}, r \in {parse(pair.right)} :
           \E stop \in {a \/ b : a \in ParseStops(l), b \in ParseStops(r)} :
               /\ aborted' = stop
               /\ pair' = IF stop THEN [pair EXCEPT !.stage = "stopped"]
                          ELSE [pair EXCEPT !.stage = "parsed", !.l = Returned(l),
                                            !.r = Returned(r)]
    /\ UNCHANGED <<ctx, root, node, err, ndebug, ref, calls, rt, builder>>

\* asPyStruct() and asPyStruct(true) on each of the two documents
PairEmit ==
    /\ pair.stage = "parsed"
    /\ pair.l.err = "none" /\ pair.r.err = "none"
    /\ pair' = [pair EXCEPT !.stage = "emitted",
                            !.lpy = dumpAsPyStruct(pair.l.c, FALSE),
                            !.rpy = dumpAsPyStruct(pair.r.c, FALSE),
                            !.lpyIndent = dumpAsPyStruct(pair.l.c, TRUE),
                            !.rpyIndent = dumpAsPyStruct(pair.r.c, TRUE)]
    /\ UNCHANGED <<ctx, root, node, err, ndebug, aborted, ref, calls, rt, builder>>

NextPair == PairParse \/ PairEmit

SpecPair == InitPair /\ [][NextPair]_vars

\* C17: parse reads no byte at or past textSize, so what it returns for a
\* buffer does not depend on the byte that follows the buffer in memory
C17_FollowingByteIgnored ==
    (pair.stage \in {"parsed", "emitted"} /\ pair.kind = "buffer") => pair.l = pair.r

\* C19: the structural output of a text, with and without indentation, is that
\* of the same text with one comment more
C19_CommentsNotInStructure ==
    (pair.stage = "emitted" /\ pair.kind = "comment") =>
        pair.lpy = pair.rpy /\ pair.lpyIndent = pair.rpyIndent

\* the children of a map once the child of position i is removed: the last
\* child takes its place, or the list is popped when i is the last position
SwappedOut(subs, i) ==
    IF i < Len(subs) - 1
    THEN SubSeq([subs EXCEPT ![i + 1] = subs[Len(subs)]], 1, Len(subs) - 1)
    ELSE SubSeq(subs, 1, Len(subs) - 1)

\* remove(key) took the Key of position i out of the map m: the children are
\* swapped and popped, and the index finds the moved key at position i
RemovedAt(c, r, m, i) ==
    /\ r.err = "none" /\ ~r.abort
    /\ Elt(r.c, m).subs = SwappedOut(Elt(c, m).subs, i)
    /\ NodeSize(r.c, Node(m, <<>>)).ret = getSubQty(Elt(c, m)) - 1
    /\ (i < getSubQty(Elt(c, m)) - 1 /\ Elt(r.c, getSub(Elt(r.c, m), i)).type = "KEY") =>
           getMapChildIndex(r.c, m, Elt(r.c, getSub(Elt(r.c, m), i)).str, Elt(r.c, m)) = i

\* C20: remove(key) on a map that has a Key of that name at position i moves
\* the last child to position i, or pops the list when i is the last position;
\* the other children stay where they are, the size is one less, and the index
\* finds the moved key at position i
C20_RemoveSwapsLastChild ==
    ~aborted =>
        \A t \in Targets :
            IsMapHandle(ctx, Handle(t)) =>
                \A key \in Keys :
                    KeyPositions(ctx, Handle(t).eltIdx, key) # {} =>
                        \A r \in {NodeRemove(ctx, Handle(t), key, ndebug, junk) :
                                      junk \in ArenaReads(ctx, Handle(t))} :
                            \E i \in KeyPositions(ctx, Handle(t).eltIdx, key) :
                                RemovedAt(ctx, r, Handle(t).eltIdx, i)

(***************************************************************************)
(* The map index driven directly: Context::addMapChildIndex,               *)
(* removeMapChildIndex and getMapChildIndex on the index of one map,       *)
(* element 0, whose children are KEY elements named after IndexNames.      *)
(* ctx is the context, ref the set of names that have a live entry, node   *)
(* the last call and what it returned.                                     *)
(***************************************************************************)
MaxIndexCalls == 4
IndexChurn == 13
IndexKeys == {<<LOWER_A>>, <<LOWER_Q>>, <<LOWER_C>>, <<LOWER_X>>}

\* the position of a name among the children of the map
ChildOf(name) == (CHOOSE i \in 1..Len(IndexNames) : IndexNames[i] = name) - 1

\* the arena after addString of the first n names
RECURSIVE NamesStored(_)
NamesStored(n) == IF n = 0 THEN <<>> ELSE NamesStored(n - 1) \o IndexNames[n] \o <<NUL>>

\* a context holding the map and its KEY children, the table still empty
IndexContext ==
    [NewContext EXCEPT !.arena = NamesStored(Len(IndexNames)), !.elements =
        <<[Element("MAP") EXCEPT !.subs = [i \in 1..Len(IndexNames) |-> i],
                              !.compound = Len(IndexNames)]>>
            \o [i \in 1..Len(IndexNames) |-> ElementKey(IndexNames[i], 0)]]

IndexAdd(c, name) == addMapChildIndex(c, 0, name, Elt(c, 0), ChildOf(name))
IndexRemove(c, name) == removeMapChildIndex(c, 0, name, Elt(c, 0))
IndexFind(c, name) == getMapChildIndex(c, 0, name, Elt(c, 0))

\* the index after addMapChildIndex of the first n names, in order
RECURSIVE AddNames(_, _)
AddNames(c, n) ==
    IF n = 0 THEN c
    ELSE CHOOSE d \in {IndexAdd(p, IndexNames[n]).c : p \in {AddNames(c, n - 1)}} : TRUE

\* n times: addMapChildIndex("c"); removeMapChildIndex("c")
RECURSIVE ChurnIndex(_, _)
ChurnIndex(c, n) ==
    IF n = 0 THEN c
    ELSE CHOOSE d \in {IndexRemove(a, <<LOWER_C>>).c :
                           a \in {IndexAdd(p, <<LOWER_C>>).c : p \in {ChurnIndex(c, n - 1)}}} : TRUE

IndexSeeds ==
    {[c |-> AddNames(IndexContext, n), ref |-> {IndexNames[i] : i \in 1..n}] :
        n \in {0, Len(CrowdedKeys), 11, Len(IndexNames)}}
    \cup {[c |-> ChurnIndex(IndexContext, IndexChurn), ref |-> {}]}

NoCall == [op |-> "none", key |-> <<>>, ret |-> 0]

InitIndex ==
    /\ \E d \in IndexSeeds : ctx = d.c /\ ref = d.ref
    /\ root = 0
    /\ node = NoCall
    /\ err = "none"
    /\ ndebug \in BOOLEAN
    /\ aborted = FALSE
    /\ calls = 0
    /\ rt = NoRoundTrip
    /\ builder = NoBuilder
    /\ pair = NoPair

\* addMapChildIndex of a name that has no live entry, as Node::insert and
\* Node::operator= call it
IndexInsert ==
    /\ ~aborted /\ calls < MaxIndexCalls
    /\ \E name \in IndexKeys \ ref :
          \A r \in {IndexAdd(ctx, name)} :
              /\ ctx' = r.c
              /\ ref' = ref \cup {name}
              /\ node' = [op |-> "insert", key |-> name, ret |-> IF r.ret THEN 1 ELSE 0]
    /\ calls' = calls + 1
    /\ UNCHANGED <<root, err, ndebug, aborted, rt, builder, pair>>

\* addMapChildIndex of a name that has a live entry: the replacement of its
\* child index
IndexReplace ==
    /\ ~aborted /\ calls < MaxIndexCalls
    /\ \E name \in IndexKeys \cap ref :
          \A r \in {IndexAdd(ctx, name)} :
              /\ ctx' = r.c
              /\ node' = [op |-> "replace", key |-> name, ret |-> IF r.ret THEN 1 ELSE 0]
    /\ calls' = calls + 1
    /\ UNCHANGED <<root, ref, err, ndebug, aborted, rt, builder, pair>>

\* removeMapChildIndex; the assertion ends a debug build
IndexErase ==
    /\ ~aborted /\ calls < MaxIndexCalls
    /\ \E name \in IndexKeys :
          \A r \in {IndexRemove(ctx, name)} :
              /\ ctx' = r.c
              /\ ref' = ref \ {name}
              /\ aborted' = (r.asserted /\ ~ndebug)
              /\ node' = [op |-> "remove", key |-> name, ret |-> r.ret]
    /\ calls' = calls + 1
    /\ UNCHANGED <<root, err, ndebug, rt, builder, pair>>

\* getMapChildIndex
IndexLookup ==
    /\ ~aborted /\ calls < MaxIndexCalls
    /\ \E name \in IndexKeys :
          node' = [op |-> "find", key |-> name, ret |-> IndexFind(ctx, name)]
    /\ calls' = calls + 1
    /\ UNCHANGED <<ctx, root, ref, err, ndebug, aborted, rt, builder, pair>>

NextIndex == IndexInsert \/ IndexReplace \/ IndexErase \/ IndexLookup

SpecIndex == InitIndex /\ [][NextIndex]_vars

\* the cells of the table that are not Empty: live entries and tombstones
Occupied(c) == Cardinality({i \in 1..Len(c.entries) : c.entries[i].hash # WFromNat(Empty, 4)})

\* the live entries of the table
Live(c) == {i \in 1..Len(c.entries) : ~U32LessNat(c.entries[i].hash, FirstValid)}

\* the step counted one more entry and the count passed the load limit of the
\* table it was added to
PassedLoadLimit ==
    /\ ctx'.entryQty = ctx.entryQty + 1
    /\ 128 * ctx'.entryQty > maxLoad128th * ctx.maxEntryQty

\* C21 (as amended): a table that has counted no entry has InitMapSize cells,
\* and a call doubles the capacity exactly when it adds an entry that takes
\* _entryQty, the count of the entries added since the construction, which no
\* removal decreases, above 115/128 of the capacity.
C21_DoublesAboveLoadLimit ==
    /\ [](ctx.entryQty = 0 => ctx.maxEntryQty = InitMapSize)
    /\ [][ctx'.maxEntryQty = IF PassedLoadLimit THEN 2 * ctx.maxEntryQty
                             ELSE ctx.maxEntryQty]_vars

\* the occupied cells once the entry of an addMapChildIndex step is written:
\* those of the table the step left when it kept its array, and at most one
\* more than before when it moved the live entries to a new one
OccupiedOnceWritten ==
    IF ctx'.maxEntryQty = ctx.maxEntryQty THEN Occupied(ctx') ELSE Occupied(ctx) + 1

\* C21 (as stated): the table starts with 16 cells and doubles exactly when,
\* after an insertion, its occupied cells exceed 90/128 of the capacity.
C21_DoublesAbove90Of128 ==
    /\ [](ctx.entryQty = 0 => ctx.maxEntryQty = InitMapSize)
    /\ [][ctx'.maxEntryQty =
             IF node'.op \in {"insert", "replace"}
                /\ 128 * OccupiedOnceWritten > 90 * ctx.maxEntryQty
             THEN 2 * ctx.maxEntryQty ELSE ctx.maxEntryQty]_vars

\* an insertion has just taken the count past the limit of the initial table,
\* which doubled
C21_Witness ==
    /\ node.op = "insert"
    /\ ctx.maxEntryQty = 2 * InitMapSize
    /\ 128 * ctx.entryQty > maxLoad128th * InitMapSize
    /\ 128 * (ctx.entryQty - 1) <= maxLoad128th * InitMapSize
    /\ Occupied(ctx) < ctx.entryQty

\* C22: a tombstone never ends the search for a matching entry: a name that has
\* a live entry is found by getMapChildIndex and by removeMapChildIndex at the
\* child index it was given, and addMapChildIndex replaces its entry instead of
\* adding a second one; a name that has none is not found.
C22_TombstoneNeverEndsSearch ==
    \A name \in IndexKeys :
        IF name \in ref
        THEN /\ IndexFind(ctx, name) = ChildOf(name)
             /\ IndexRemove(ctx, name).ret = ChildOf(name)
             /\ IndexAdd(ctx, name).ret = FALSE
             /\ Live(IndexAdd(ctx, name).c) = Live(ctx)
        ELSE IndexFind(ctx, name) = UINT_MAX

\* the line the probe is at after n jumps from the line idx: the jump number
\* probeIncr moves it by probeIncr * KeyDirAssocQty cells
RECURSIVE ProbeLine(_, _, _)
ProbeLine(c, idx, n) ==
    IF n = 0 THEN idx
    ELSE BitAnd(ProbeLine(c, idx, n - 1) + n * KeyDirAssocQty, BucketMask(c), 24)

LineHasEmpty(c, idx) ==
    \E cellId \in 0..KeyDirAssocQty - 1 : Entry(c, idx + cellId).hash = WFromNat(Empty, 4)

\* the cell at which the probe of an operation stopped without a match is one
\* that ends its loop: an Empty one, or for addMapChildIndex a tombstone
StopsAtFreeCell(c, name, minHash) ==
    \A r \in {FindKey(c, 0, name, Elt(c, 0), minHash)} :
        r.found \/ U32LessNat(Entry(c, r.slot).hash, minHash)

\* C27: every operation of the index terminates: the table always has an Empty
\* cell, the probe from the first line of any name comes, within as many jumps
\* as the table has lines, to a line that has one, and the three operations
\* each return, on a match or on a cell that ends their loop.
C27_ProbeReachesEmptyCell ==
    /\ \E i \in 0..ctx.maxEntryQty - 1 : Entry(ctx, i).hash = WFromNat(Empty, 4)
    /\ \A i \in 1..Len(IndexNames) :
          \E n \in 0..(ctx.maxEntryQty \div KeyDirAssocQty) - 1 :
              LineHasEmpty(ctx, ProbeLine(ctx, FirstLine(ctx, KeyHash(0, IndexNames[i])), n))
    /\ \A name \in IndexKeys :
          /\ StopsAtFreeCell(ctx, name, Tombstone)
          /\ StopsAtFreeCell(ctx, name, FirstValid)
          /\ IndexFind(ctx, name) \in {ChildOf(name), UINT_MAX}
          /\ IndexRemove(ctx, name).ret \in {ChildOf(name), UINT_MAX}
          /\ IndexAdd(ctx, name).ret \in BOOLEAN

\* a lookup has just failed after leaving a first line without an Empty cell
\* and passing a tombstone
C27_Witness ==
    /\ node.op = "find"
    /\ node.ret = UINT_MAX
    /\ ~LineHasEmpty(ctx, FirstLine(ctx, KeyHash(0, node.key)))
    /\ \E i \in 0..ctx.maxEntryQty - 1 : Entry(ctx, i).hash = WFromNat(Tombstone, 4)
    /\ Cardinality(Live(ctx)) >= KeyDirAssocQty

(***************************************************************************)
(* A map that is the value of a key or an item of a sequence, filled,      *)
(* reassigned with = MAP and filled again.  root is the handle of that     *)
(* map, ref its reference dictionary, and node records the names the map   *)
(* held when it was last reassigned.                                       *)
(***************************************************************************)
MaxResetCalls == 4

\* Document d; d = MAP; d["b"] = MAP; the handle d["b"]
MapUnderKey ==
    With(NodeAssignKind(NewMap.c, NodeAtKey(NewMap.c, NewMap.node, <<LOWER_B>>).ret, "MAP"),
         LAMBDA r :
         [c |-> r.c, node |-> NodeAtKey(r.c, NewMap.node, <<LOWER_B>>).ret, ref |-> {}])

\* Document d; d = SEQUENCE; d.push_back(MAP); the handle d[0]
MapUnderItem ==
    With(NodeAssignKind(NewDocument.c, NewDocument.node, "SEQUENCE"), LAMBDA s :
    With(NodePushBackKind(s.c, s.node, "MAP"), LAMBDA r :
         [c |-> r.c, node |-> NodeAtIndex(r.c, s.node, 0).ret, ref |-> {}]))

ResetSeeds ==
    {InsertAll(d, keys) :
        d \in {MapUnderKey, MapUnderItem},
        keys \in {<<>>, <<(<<LOWER_A>>), (<<LOWER_Q>>)>>,
                  <<(<<LOWER_Q>>), (<<LOWER_C>>), (<<LOWER_A>>)>>}}

NeverReset == [resets |-> 0, former |-> {}]

InitReset ==
    /\ \E d \in ResetSeeds : ctx = d.c /\ root = d.node /\ ref = d.ref
    /\ node = NeverReset
    /\ err = "none"
    /\ ndebug \in BOOLEAN
    /\ aborted = FALSE
    /\ calls = 0
    /\ rt = NoRoundTrip
    /\ builder = NoBuilder
    /\ pair = NoPair

\* one statement on the map, with what the reference dictionary becomes
ResetCall(r, newRef) ==
    /\ ~aborted
    /\ calls < MaxResetCalls
    /\ calls' = calls + 1
    /\ ctx' = r.c
    /\ err' = r.err
    /\ aborted' = r.abort
    /\ ref' = IF r.err = "none" /\ ~r.abort THEN newRef ELSE ref
    /\ UNCHANGED <<root, ndebug, rt, builder, pair>>

\* m[k] = v
ResetAssign ==
    /\ \E k \in DictKeys, v \in DictVals :
          \E r1 \in {NodeAtKey(ctx, root, k)} :
              ResetCall(NodeAssign(r1.c, r1.ret, v, ndebug), RefPut(k, v.str))
    /\ UNCHANGED node

\* m.insert(k, v)
ResetInsert ==
    /\ \E k \in DictKeys, v \in DictVals :
          ResetCall(NodeInsert(ctx, root, k, v), RefPut(k, v.str))
    /\ UNCHANGED node

\* m.remove(k)
ResetRemove ==
    /\ \E k \in DictKeys, junk \in ArenaReads(ctx, root) :
          ResetCall(NodeRemove(ctx, root, k, ndebug, junk), {p \in ref : p[1] # k})
    /\ UNCHANGED node

\* m = MAP
ResetMap ==
    /\ ResetCall(NodeAssignKind(ctx, root, "MAP"), {})
    /\ node' = [resets |-> node.resets + 1, former |-> {p[1] : p \in ref}]

NextReset == ResetAssign \/ ResetInsert \/ ResetRemove \/ ResetMap

SpecReset == InitReset /\ [][NextReset]_vars

\* C23: once a map that is the value of a key or an item of a sequence has
\* been reassigned with = MAP, its size is the number of the keys inserted
\* since, none at first; hasKey is false for the names of its former content
\* that were not inserted again, and true for every key inserted since, whose
\* value is the one stored last.
C23_ReassignedMapIsEmpty ==
    (~aborted /\ node.resets > 0) =>
        /\ NodeSize(ctx, root).ret = Cardinality(ref)
        /\ \A k \in node.former \ {p[1] : p \in ref} : NodeHasKey(ctx, root, k).ret = FALSE
        /\ \A p \in ref :
              /\ NodeHasKey(ctx, root, p[1]).ret = TRUE
              /\ NodeAs(ctx, NodeAtKey(ctx, root, p[1]).ret, TRUE).ret = p[2]
        /\ \A k \in DictKeys : NodeHasKey(ctx, root, k).ret = RefHas(k)

\* a map that held three keys was reassigned, one of the three was inserted
\* again and the two others were not
C23_Witness ==
    /\ ~aborted
    /\ node.resets > 0
    /\ Cardinality(node.former) = 3
    /\ Cardinality(ref) = 1
    /\ \A p \in ref : p[1] \in node.former /\ NodeHasKey(ctx, root, p[1]).ret = TRUE
    /\ root.eltIdx # 0

\* the header of a block scalar text: what stands between its mark and the
\* end of its first line
HeaderOf(text) ==
    SubSeq(text, 2, (CHOOSE i \in 1..Len(text) :
                        text[i] = NL /\ \A j \in 1..i - 1 : text[j] # NL) - 1)

\* how many characters of the header are among the set chars
HeaderCount(h, chars) == Cardinality({j \in 1..Len(h) : h[j] \in chars})

\* C24: a block scalar header that provides a chomp indicator more than once,
\* or an explicit indent digit more than once, makes parse fail with a Parse
\* error, wherever the indicators stand in the header.
C24_RepeatedIndicatorRejected ==
    (builder.stage = "parsed" /\ builder.mem.text \in HeaderTexts) =>
        \A h \in {HeaderOf(builder.mem.text)} :
            (HeaderCount(h, {PLUS, DASH}) > 1 \/ HeaderCount(h, DIGIT1..DIGIT9) > 1)
                => builder.p.err \in {ChompError, IndentError}

(***************************************************************************)
(* The emission of one scalar: a document whose root map holds the scalar  *)
(* under the key a, or whose root sequence holds it as its item, and       *)
(* Document::asYaml.  ref is the scalar and the text emitted before it,    *)
(* pair the emission.                                                      *)
(***************************************************************************)
MaxScalarLen == 3
ScalarAlphabet == {LOWER_A, COLON, SP, HASH, TAB, CR, NL, SQ, GT}
Scalars == UNION {[1..n -> ScalarAlphabet] : n \in 1..MaxScalarLen}

\* Document d; d = MAP; d["a"] = scalar
ScalarUnderKey(s) ==
    NodeAssign(NewMap.c, NodeAtKey(NewMap.c, NewMap.node, <<LOWER_A>>).ret, StringVal(s), TRUE).c

\* Document d; d = SEQUENCE; d.push_back(scalar)
ScalarInItem(s) ==
    With(NodeAssignKind(NewDocument.c, NewDocument.node, "SEQUENCE"), LAMBDA r :
         NodePushBack(r.c, r.node, StringVal(s)).c)

\* the documents emitted: those of one scalar, and Document d; d = SEQUENCE;
\* d.push_back(MAP), whose last item is an empty map
InitEmit ==
    /\ \/ \E s \in Scalars :
             \/ ctx = ScalarUnderKey(s) /\ ref = [scalar |-> s, lead |-> <<LOWER_A, COLON, SP>>]
             \/ ctx = ScalarInItem(s)
                /\ ref = [scalar |-> s, lead |-> <<DASH, SP, NL, SP, SP, DASH, SP>>]
       \/ ctx = MapUnderItem.c /\ ref = [scalar |-> <<>>, lead |-> <<>>]
    /\ root = NewDocument.node /\ node = NewDocument.node
    /\ err = "none"
    /\ ndebug = TRUE
    /\ aborted = FALSE
    /\ calls = 0
    /\ rt = NoRoundTrip
    /\ builder = NoBuilder
    /\ pair = NoPair

\* Document::asYaml
EmitYaml ==
    /\ pair = NoPair
    /\ \E y \in {dumpAsYaml(ctx)} :
          /\ aborted' = y.abort
          /\ pair' = [stage |-> IF y.abort THEN "stopped" ELSE "yaml", yaml |-> y.str]
    /\ UNCHANGED <<ctx, root, node, err, ndebug, ref, calls, rt, builder>>

NextEmit == EmitYaml

SpecEmit == InitEmit /\ [][NextEmit]_vars

\* the scalar was emitted in plain style: its bytes follow the key or the dash
EmittedPlain == pair.yaml = ref.lead \o ref.scalar \o <<NUL>>

\* the scalar has, somewhere, the byte first followed by the byte second
HasPair(s, first, second) == \E i \in 1..Len(s) - 1 : s[i] = first /\ s[i + 1] = second

\* C25: asYaml emits a scalar in plain style only if it does not start with a
\* space, >, |, ' or ", does not end with a space, contains no ": " and no ":"
\* at its end, contains no " #", and contains no tab, carriage return or line
\* feed; any other non-empty scalar is quoted.
C25_PlainOnlyIfSafe ==
    (pair.stage = "yaml" /\ EmittedPlain) =>
        \A s \in {ref.scalar} :
            /\ s[1] \notin {SP, GT, PIPE, SQ, DQ}
            /\ s[Len(s)] # SP
            /\ ~HasPair(s, COLON, SP)
            /\ s[Len(s)] # COLON
            /\ ~HasPair(s, SP, HASH)
            /\ \A i \in 1..Len(s) : s[i] \notin {TAB, CR, NL}

\* the last token read is a StringValue and the frame on top of the stack,
\* when it was read, was that of a Map
ValueUnderMap ==
    /\ builder.stage \in {"parse", "parsed"}
    /\ builder.token.err = "none"
    /\ builder.token.type = "StringValue"
    /\ builder.before.stack # <<>>
    /\ ParentElt(builder.before).type = "MAP"

\* no Value element is a direct child of a Map of the context
NoValueUnderMap(c) ==
    \A i \in 0..Len(c.elements) - 1 :
        Elt(c, i).type = "MAP" =>
            \A j \in 0..getSubQty(Elt(c, i)) - 1 : Elt(c, getSub(Elt(c, i), j)).type # "VALUE"

\* the column of the token passes the two indentation tests of its parent
ValueColumnFits(parent, colNbr) ==
    /\ colNbr > parent.indent
    /\ ~(parent.childIndent >= 0 /\ colNbr < parent.childIndent)

\* C26 (as amended): a StringValue token whose parent frame is a Map always
\* makes parse fail: with 'in a map, a value without a key is forbidden' when
\* its column passes the two indentation tests made before, and with the
\* error of the first test it fails otherwise; and no Value element is ever a
\* direct child of a Map while parse builds the tree.
C26_ValueUnderMapFails ==
    /\ ValueUnderMap =>
          builder.p.err =
              IF builder.token.startColNbr <= builder.before.parent.indent
              THEN ValueIndentError
              ELSE IF ValueColumnFits(builder.before.parent, builder.token.startColNbr)
              THEN ValueInMapError ELSE ValueAlignError
    /\ builder.stage # "none" => NoValueUnderMap(builder.p.c)

\* C26 (as stated): a StringValue token whose parent frame is a Map always
\* makes parse fail with 'in a map, a value without a key is forbidden', and
\* no Value element is ever a direct child of a Map.
C26_ValueUnderMapForbidden ==
    /\ ValueUnderMap => builder.p.err = ValueInMapError
    /\ builder.stage # "none" => NoValueUnderMap(builder.p.c)

\* a value was read under a map that has children, at a column that fits, and
\* parse failed
C26_Witness ==
    /\ ValueUnderMap
    /\ builder.stage = "parsed"
    /\ getSubQty(ParentElt(builder.before)) > 0
    /\ ValueColumnFits(builder.before.parent, builder.token.startColNbr)
    /\ err = ValueInMapError

\* C28: parse returns a document only once the tokenizer has delivered Eos:
\* the stack of the builder is never emptied, stack.back() is never read on
\* an empty stack, and a parse that returns without an error has read its
\* input to the end, so that what follows a top-level scalar is built into the
\* tree or rejected.
C28_ReturnsOnlyAfterEos ==
    builder.stage \in {"parse", "parsed"} =>
        /\ builder.p.stack # <<>>
        /\ ~builder.p.emptyBack
        /\ (builder.stage = "parsed" /\ builder.p.err = "none") =>
              /\ builder.p.isEndOfInput
              /\ builder.p.startIdx >= Len(builder.mem.text)

(***************************************************************************)
(* Assignments through one handle: Node h = root[k] for a key k the root   *)
(* map does not hold, then h = v again and again.  node is the handle h,   *)
(* pair keeps the key k, ref is the dictionary the map should hold.        *)
(***************************************************************************)
MaxHandleCalls == 3

InitHandle ==
    /\ \E d \in DictSeeds, k \in DictKeys :
          /\ k \notin {p[1] : p \in d.ref}
          /\ ctx = d.c /\ root = d.node /\ ref = d.ref
          /\ node = NodeAtKey(d.c, d.node, k).ret
          /\ pair = [stage |-> "handle", key |-> k]
    /\ err = "none"
    /\ ndebug \in BOOLEAN
    /\ aborted = FALSE
    /\ calls = 0
    /\ rt = NoRoundTrip
    /\ builder = NoBuilder

\* h = v
HandleAssign ==
    /\ ~aborted /\ err = "none" /\ calls < MaxHandleCalls
    /\ \E v \in DictVals :
          \A r \in {NodeAssign(ctx, node, v, ndebug)} :
              /\ ctx' = r.c
              /\ node' = r.node
              /\ err' = r.err
              /\ aborted' = r.abort
              /\ ref' = IF r.err = "none" /\ ~r.abort THEN RefPut(pair.key, v.str) ELSE ref
    /\ calls' = calls + 1
    /\ UNCHANGED <<root, ndebug, rt, builder, pair>>

NextHandle == HandleAssign

SpecHandle == InitHandle /\ [][NextHandle]_vars

\* C29: once the first assignment has created the key of a pending handle,
\* a further scalar assignment through the same handle only changes the value
\* stored under that key: the map is still a Map, it holds the same keys, and
\* the key of the handle has the value assigned last.
C29_FurtherAssignKeepsMap ==
    (calls >= 1 /\ ~aborted /\ err = "none") =>
        /\ Elt(ctx, root.eltIdx).type = "MAP"
        /\ NodeSize(ctx, root).ret = Cardinality(ref)
        /\ \A p \in ref :
              /\ NodeHasKey(ctx, root, p[1]).ret = TRUE
              /\ NodeAs(ctx, NodeAtKey(ctx, root, p[1]).ret, TRUE).ret = p[2]

\* every Key child of the map m is found by the index at the position it has
KeysFoundInPlace(c, m) ==
    \A pos \in 0..getSubQty(Elt(c, m)) - 1 :
        Elt(c, getSub(Elt(c, m), pos)).type = "KEY" =>
            getMapChildIndex(c, m, Elt(c, getSub(Elt(c, m), pos)).str, Elt(c, m)) = pos

\* C30: remove(k) of a key that the map holds returns true without reaching
\* the 'Key not present' assertion, and leaves every remaining key findable at
\* the position it has, also when the last child of the map is a Comment.
C30_RemoveWithCommentLast ==
    ~aborted =>
        \A t \in Targets :
            IsMapHandle(ctx, Handle(t)) =>
                \A key \in Keys :
                    (/\ NodeHasKey(ctx, Handle(t), key).ret = TRUE
                     /\ KeysFoundInPlace(ctx, Handle(t).eltIdx)) =>
                        \A r \in {NodeRemove(ctx, Handle(t), key, ndebug, junk) :
                                      junk \in ArenaReads(ctx, Handle(t))} :
                            /\ ~r.abort
                            /\ r.err = "none"
                            /\ r.ret = TRUE
                            /\ KeysFoundInPlace(r.c, Handle(t).eltIdx)

====
